---- MODULE Spec2Model ----
(***************************************************************************)
(* A state-machine model of the 11ku7 AI Chat client.                      *)
(*                                                                         *)
(* Text is modelled as a sequence of tokens (TLA+ strings): a token is a   *)
(* word, a single blank " ", a line break "\n", the heading mark "## ", a  *)
(* fenced code block, or one fixed phrase of the program.  Every string    *)
(* operation of the source (startsWith, split, trim, join, the regular     *)
(* expressions) is computed on these token sequences.                      *)
(*                                                                         *)
(* An optional value (undefined / null in the source) is a sequence of     *)
(* length 0 or 1, and so is the in-flight provider request.                *)
(***************************************************************************)
EXTENDS Integers, Sequences, FiniteSets, TLC

VARIABLES
    isConfigured,     \* App: useState(false)
    appState,         \* App: provider, model, apiKey, baseURL
    chatMessages,     \* MainInterface: the conversation store
    currentMode,      \* MainInterface: 'none' | 'code' | 'webapp'
    isTyping,         \* MainInterface: useState(false)
    inflight,         \* the suspended simulateAIResponse (0 or 1 entries)
    attachments,      \* InputArea: pending attachments
    processingFiles,  \* InputArea: ids of the files being processed
    batch,            \* the suspended handleFileSelect (0 or 1 entries)
    clipboard,        \* navigator.clipboard
    download,         \* the last transcript handed to the browser (0 or 1)
    clock,            \* number of messages created so far (Date.now order)
    fetchCount,       \* number of provider requests issued so far
    alerts,           \* window.alert notices of the last file handler step
    customSystemPrompt,   \* MainInterface: the custom system prompt (stored)
    systemPromptEnabled,  \* MainInterface: whether it is switched on (stored)
    providerSelection     \* ProviderSelection: the useState hooks of the wizard

vars == << isConfigured, appState, chatMessages, currentMode, isTyping,
           inflight, attachments, processingFiles, batch, clipboard,
           download, clock, fetchCount, alerts, customSystemPrompt,
           systemPromptEnabled, providerSelection >>

----------------------------------------------------------------------------
(* Bounds of the model. *)

\* messages created in one run (the clock stops the run there)
MaxClock == 7

\* files in one selected batch
MaxBatch == 2

----------------------------------------------------------------------------
(* Generic helpers on sequences. *)

Last(s) == s[Len(s)]

RECURSIVE Concat(_)
Concat(ss) == IF ss = << >> THEN << >> ELSE Head(ss) \o Concat(Tail(ss))

\* Array.prototype.join on token sequences
RECURSIVE Join(_, _)
Join(ss, sep) ==
    IF ss = << >> THEN << >>
    ELSE IF Len(ss) = 1 THEN ss[1]
    ELSE ss[1] \o sep \o Join(Tail(ss), sep)

Whitespace == { " ", "\n" }

RECURSIVE TrimStart(_)
TrimStart(s) ==
    IF s # << >> /\ Head(s) \in Whitespace THEN TrimStart(Tail(s)) ELSE s

RECURSIVE TrimEnd(_)
TrimEnd(s) ==
    IF s # << >> /\ Last(s) \in Whitespace
    THEN TrimEnd(SubSeq(s, 1, Len(s) - 1)) ELSE s

\* String.prototype.trim
Trim(s) == TrimEnd(TrimStart(s))

\* String.prototype.split(' '): the pieces between single blanks
RECURSIVE SplitBlank(_, _, _)
SplitBlank(s, cur, acc) ==
    IF s = << >> THEN Append(acc, cur)
    ELSE IF Head(s) = " " THEN SplitBlank(Tail(s), << >>, Append(acc, cur))
    ELSE SplitBlank(Tail(s), Append(cur, Head(s)), acc)

Split(s) == SplitBlank(s, << >>, << >>)

----------------------------------------------------------------------------
(* Types of src/types/index.ts. *)

Roles == { "user", "ai", "system" }

Modes == { "none", "code", "webapp" }

Providers == { "Gemini", "OpenAI" }

\* ChatMessage; an absent codeBlocks or attachments field is the empty list
\* (the source only ever tests them with `?.length`)
Msg(role, content, t, codeBlocks, atts) ==
    [ role |-> role, content |-> content, timestamp |-> t,
      codeBlocks |-> codeBlocks, attachments |-> atts ]

\* a queued setChatMessages call: fn = TRUE is the functional form
\* prev => [...prev, ...value], fn = FALSE replaces the store by value
Update(fn, value) == [ fn |-> fn, value |-> value ]

\* the conversation store hook (useLocalStorage): queued updates are applied
\* in the order the handler issued them
RECURSIVE setChatMessages(_, _)
setChatMessages(prev, updates) ==
    IF updates = << >> THEN prev
    ELSE setChatMessages(
            IF Head(updates).fn THEN prev \o Head(updates).value
                                ELSE Head(updates).value,
            Tail(updates))

----------------------------------------------------------------------------
(* Code-block extraction. *)

\* fenced regions that occur in the modelled texts (<fence> stands for the
\* three-backquote mark)
FenceJs == "<fence>js\n A \n<fence>"

FenceNoTag == "<fence>\nB<fence>"

FenceInline == "<fence>C<fence>"

Fences == { FenceJs, FenceNoTag, FenceInline }

\* what codeBlockRegex captures in each fenced region:
\* matched (a line break follows the tag), the tag, the body
FenceParts(f) ==
    CASE f = FenceJs     -> [ matched |-> TRUE,  tag |-> << "js" >>,
                              body |-> << " ", "A", " ", "\n" >> ]
      [] f = FenceNoTag  -> [ matched |-> TRUE,  tag |-> << >>,
                              body |-> << "B" >> ]
      [] f = FenceInline -> [ matched |-> FALSE, tag |-> << >>,
                              body |-> << >> ]

RECURSIVE extractCodeBlocks(_)
extractCodeBlocks(content) ==
    IF content = << >> THEN << >>
    ELSE LET t == Head(content)
             rest == extractCodeBlocks(Tail(content))
         IN IF t \in Fences /\ FenceParts(t).matched
            THEN << [ language |-> IF FenceParts(t).tag = << >> THEN "text"
                                   ELSE FenceParts(t).tag[1],
                      code |-> Trim(FenceParts(t).body) ] >> \o rest
            ELSE rest

----------------------------------------------------------------------------
(* Fixed texts of MainInterface.tsx, one token per phrase. *)

WelcomeText(st) == << "Welcome to 11ku7 AI Chat", st.provider, st.model >>

HelpText == << "11ku7 AI Chat - Command Reference" >>

ClearedText == << "Chat cleared successfully." >>

SwitchingText == << "Switching AI provider..." >>

CopiedText(n) == << "Copied", ToString(n), "code block(s) to clipboard." >>

NoCodeText == << "No code blocks found in the last response." >>

CodeModeText(m) ==
    << "Code mode", IF m = "code" THEN "enabled" ELSE "disabled" >>

WebappModeText(m) ==
    << "Webapp mode", IF m = "webapp" THEN "enabled" ELSE "disabled" >>

ExportText == << "Conversation export initiated." >>

UnknownMark == "Unknown command:"

UnknownText(cmd) == << UnknownMark >> \o cmd \o << "Type /help" >>

SavedText == << "Conversation saved to markdown file successfully." >>

ClearAckText == << "Chat cleared successfully. Start a new conversation!" >>

LoadedText(name, n) ==
    << "Conversation loaded from", name, ToString(n), "messages restored." >>

DefaultDirective == << "Please analyze the attached files." >>

----------------------------------------------------------------------------
(* Transcripts: handleSaveConversation and handleLoadConversation. *)

HeadingMark == "## "

\* msg.role.charAt(0).toUpperCase() + msg.role.slice(1)
Capitalize(role) ==
    CASE role = "user" -> "User" [] role = "ai" -> "Ai"
      [] role = "system" -> "System"

\* the words /(User|Ai|System)/i matches, and their toLowerCase()
RoleWords == { "User", "Ai", "System", "user", "ai", "system", "USER" }

ToLowerCase(w) ==
    CASE w \in { "User", "user", "USER" } -> "user"
      [] w \in { "Ai", "ai" } -> "ai"
      [] w \in { "System", "system" } -> "system"

\* Math.round(size / 1024)
RoundKB(size) == (size + 512) \div 1024

AttachmentLine(i, att) ==
    << ToString(i), att.name, att.type, ToString(RoundKB(att.size)), "KB" >>
    \o (IF att.hasPages
        THEN << "PDF with", ToString(Len(att.documentPages)),
                "pages converted to images" >>
        ELSE << >>)
    \o << "\n" >>

AttachmentListing(atts) ==
    IF Len(atts) > 0
    THEN << "\n", "\n", "**Attachments:**", "\n" >>
         \o Concat([ i \in 1..Len(atts) |-> AttachmentLine(i, atts[i]) ])
    ELSE << >>

MessageSection(msg) ==
    << HeadingMark, Capitalize(msg.role), "\n" >> \o msg.content
    \o AttachmentListing(msg.attachments) \o << "\n" >>

\* the text of the Blob that handleSaveConversation downloads
Transcript(log) ==
    << "# Chat Conversation", "\n", "\n" >>
    \o Join([ i \in 1..Len(log) |-> MessageSection(log[i]) ], << "\n" >>)

\* content.split(/## (User|Ai|System)/i): text, role word, text, ...
RECURSIVE SplitSections(_, _, _, _)
SplitSections(toks, i, cur, acc) ==
    IF i > Len(toks) THEN Append(acc, cur)
    ELSE IF toks[i] = HeadingMark /\ i < Len(toks) /\ toks[i + 1] \in RoleWords
         THEN SplitSections(toks, i + 2, << >>,
                            acc \o << cur, << toks[i + 1] >> >>)
         ELSE SplitSections(toks, i + 1, Append(cur, toks[i]), acc)

\* the loop of reader.onload: one message per section with content
RECURSIVE LoadSections(_, _, _)
LoadSections(sections, i, t) ==
    IF i + 1 > Len(sections) THEN << >>
    ELSE LET role == ToLowerCase(sections[i][1])
             messageContent == Trim(sections[i + 1])
         IN IF messageContent # << >>
            THEN << Msg(role, messageContent, t + 1,
                        extractCodeBlocks(messageContent), << >>) >>
                 \o LoadSections(sections, i + 2, t + 1)
            ELSE LoadSections(sections, i + 2, t)

\* newMessages of handleLoadConversation (sections[0] is skipped)
ParseTranscript(content, t) ==
    LoadSections(SplitSections(content, 1, << >>, << >>), 2, t)

----------------------------------------------------------------------------
(* handleSaveConversation, handleCommand, handleCommandExecute. *)

\* what a handler hands back to the action that runs it: the setChatMessages
\* calls it queued, the messages it created, and its other effects
\* (clip: a copyToClipboard call, dl: a downloaded transcript)
Effects(reply, updates, created, mode, clip, dl, changeProvider) ==
    [ reply |-> reply, updates |-> updates, created |-> created,
      mode |-> mode, clip |-> clip, dl |-> dl,
      changeProvider |-> changeProvider ]

\* log is the chatMessages of the render the handler closed over
handleSaveConversation(log, t) ==
    [ dl |-> << [ text |-> Transcript(log), of |-> log ] >>,
      updates |-> << Update(TRUE, << Msg("system", SavedText, t + 1,
                                         << >>, << >>) >>) >>,
      created |-> 1 ]

\* blocks.map(block => block.code).join('\n\n')
AllCode(blocks) ==
    Join([ i \in 1..Len(blocks) |-> blocks[i].code ], << "\n", "\n" >>)

\* a variant of '/code' that switches code mode on and never off
newCodeModeSticky(mode) == "code"

\* case '/code': currentMode === 'code' ? 'none' : 'code'
newCodeMode(mode) == IF mode = "code" THEN "none" ELSE "code"

\* case '/webapp': currentMode === 'webapp' ? 'none' : 'webapp'
newWebappMode(mode) == IF mode = "webapp" THEN "none" ELSE "webapp"

\* a variant whose default case also switches back to normal mode
handleCommandResetting(command, log, mode, t) ==
    LET cmd == Split(command)[1]
        quiet(reply) == Effects(reply, << >>, 0, mode, << >>, << >>, FALSE)
    IN CASE cmd = << "/help" >> -> quiet(HelpText)
         [] cmd = << "/clear" >> ->
              Effects(ClearedText, << Update(FALSE, << >>) >>, 0, mode,
                      << >>, << >>, FALSE)
         [] cmd = << "/model" >> ->
              Effects(SwitchingText, << >>, 0, mode, << >>, << >>, TRUE)
         [] cmd = << "/copy" >> ->
              IF Len(log) > 0 /\ Len(Last(log).codeBlocks) > 0
              THEN Effects(CopiedText(Len(Last(log).codeBlocks)), << >>, 0,
                           mode, << AllCode(Last(log).codeBlocks) >>,
                           << >>, FALSE)
              ELSE quiet(NoCodeText)
         [] cmd = << "/code" >> ->
              Effects(CodeModeText(newCodeMode(mode)), << >>, 0,
                      newCodeMode(mode), << >>, << >>, FALSE)
         [] cmd = << "/webapp" >> ->
              Effects(WebappModeText(newWebappMode(mode)), << >>, 0,
                      newWebappMode(mode), << >>, << >>, FALSE)
         [] cmd = << "/savecon" >> ->
              LET s == handleSaveConversation(log, t)
              IN Effects(ExportText, s.updates, s.created, mode, << >>,
                         s.dl, FALSE)
         [] OTHER ->
              Effects(UnknownText(cmd), << >>, 0, "none", << >>, << >>,
                      FALSE)

\* log and mode are the chatMessages and currentMode of the render the
\* handler closed over
handleCommand(command, log, mode, t) ==
    LET cmd == Split(command)[1]
        quiet(reply) == Effects(reply, << >>, 0, mode, << >>, << >>, FALSE)
    IN CASE cmd = << "/help" >> -> quiet(HelpText)
         [] cmd = << "/clear" >> ->
              Effects(ClearedText, << Update(FALSE, << >>) >>, 0, mode,
                      << >>, << >>, FALSE)
         [] cmd = << "/model" >> ->
              Effects(SwitchingText, << >>, 0, mode, << >>, << >>, TRUE)
         [] cmd = << "/copy" >> ->
              IF Len(log) > 0 /\ Len(Last(log).codeBlocks) > 0
              THEN Effects(CopiedText(Len(Last(log).codeBlocks)), << >>, 0,
                           mode, << AllCode(Last(log).codeBlocks) >>,
                           << >>, FALSE)
              ELSE quiet(NoCodeText)
         [] cmd = << "/code" >> ->
              Effects(CodeModeText(newCodeMode(mode)), << >>, 0,
                      newCodeMode(mode), << >>, << >>, FALSE)
         [] cmd = << "/webapp" >> ->
              Effects(WebappModeText(newWebappMode(mode)), << >>, 0,
                      newWebappMode(mode), << >>, << >>, FALSE)
         [] cmd = << "/savecon" >> ->
              LET s == handleSaveConversation(log, t)
              IN Effects(ExportText, s.updates, s.created, mode, << >>,
                         s.dl, FALSE)
         [] OTHER -> quiet(UnknownText(cmd))

\* `${command} ${args.join(' ')}`.trim()
FullCommand(command, args) == Trim(command \o << " " >> \o Join(args, << " " >>))

handleCommandExecute(command, args, log, mode, t) ==
    LET fullCommand == FullCommand(command, args)
        userMessage == Msg("user", fullCommand, t + 1, << >>, << >>)
        r == handleCommand(fullCommand, log, mode, t + 1)
        systemMessage == Msg("system", r.reply, t + 2 + r.created,
                             << >>, << >>)
    IN Effects(r.reply,
               << Update(TRUE, << userMessage >>) >> \o r.updates
                  \o << Update(TRUE, << systemMessage >>) >>,
               2 + r.created, r.mode, r.clip, r.dl, r.changeProvider)

----------------------------------------------------------------------------
(* getActualAIResponse: the provider's answer and what the code makes of it. *)

\* An answer of the provider: a network failure (fetch rejects), or an HTTP
\* response with a status and a JSON body.  In a body every level that may be
\* missing is an optional value: candidates / choices is << >> or << array >>.
NetworkError ==
    [ name |-> "network", fetched |-> FALSE, status |-> 0, body |-> << >> ]

Http(name, status, body) ==
    [ name |-> name, fetched |-> TRUE, status |-> status, body |-> body ]

\* response.ok
Ok(resp) == resp.status >= 200 /\ resp.status <= 299

\* results of the call: a returned text or a thrown error message
Return(text) == [ threw |-> FALSE, text |-> text ]

Throw(message) == [ threw |-> TRUE, text |-> message ]

InvalidFormat == "Invalid response format from"

NoResponse == "No response from"

TypeErrorText == << "TypeError: Cannot read properties of undefined" >>

GeminiText(data) ==
    IF data.candidates = << >> \/ data.candidates[1] = << >>
       \/ data.candidates[1][1].content = << >>
    THEN Throw(<< InvalidFormat, "Gemini API" >>)
    ELSE LET content == data.candidates[1][1].content[1]
         IN IF content.parts = << >> \/ content.parts[1] = << >>
            THEN Throw(TypeErrorText)
            ELSE LET text == content.parts[1][1].text
                 IN IF text = << >> \/ text[1] = << >>
                    THEN Return(<< NoResponse, "Gemini API" >>)
                    ELSE Return(text[1])

OpenAIText(data) ==
    IF data.choices = << >> \/ data.choices[1] = << >>
       \/ data.choices[1][1].message = << >>
    THEN Throw(<< InvalidFormat, "OpenAI API" >>)
    ELSE LET content == data.choices[1][1].message[1].content
         IN IF content = << >> \/ content[1] = << >>
            THEN Return(<< NoResponse, "OpenAI API" >>)
            ELSE Return(content[1])

\* the part of getActualAIResponse after the await of fetch
getActualAIResponse(st, resp) ==
    IF st.provider \notin Providers THEN Return(<< "No AI provider configured" >>)
    ELSE IF ~resp.fetched THEN Throw(<< "TypeError: Failed to fetch" >>)
    ELSE IF ~Ok(resp)
         THEN Throw(<< st.provider, "API error:", ToString(resp.status) >>)
    ELSE IF st.provider = "Gemini" THEN GeminiText(resp.body[1])
    ELSE OpenAIText(resp.body[1])

ErrorMark == "**Error communicating with AI:**"

\* a variant of the error text that leaves the cause out
ErrorTextBare(message, st) ==
    << ErrorMark, "**Troubleshooting:**", st.provider, st.model >>

ErrorText(message, st) ==
    << ErrorMark >> \o message
    \o << "**Troubleshooting:**", st.provider, st.model,
          IF st.baseURL = << >> THEN "Default" ELSE st.baseURL[1] >>

\* the part of simulateAIResponse after the await: the message it appends
AIMessage(st, resp, t) ==
    LET r == getActualAIResponse(st, resp)
        responseContent == IF r.threw THEN ErrorText(r.text, st) ELSE r.text
        codeBlocks == IF r.threw THEN << >>
                      ELSE extractCodeBlocks(responseContent)
    IN Msg("ai", responseContent, t + 1, codeBlocks, << >>)

----------------------------------------------------------------------------
(* Attachment ingestion: DocumentProcessor and handleFileSelect. *)

\* 10 * 1024 * 1024
MaxFileSize == 10485760

ImageTypes == { "image/png", "image/jpeg" }

\* supportedExtensions of isSupportedDocument
SupportedExtensions ==
    { "pdf", "md", "txt", "json", "js", "jsx", "ts", "tsx",
      "py", "html", "css", "xml", "csv" }

\* A selected file: ext is name.split('.').pop()?.toLowerCase(), text its
\* decoded text, pages the text layer of each page when it is a PDF.
File(name, ext, type, size, text, pages) ==
    [ name |-> name, ext |-> ext, type |-> type, size |-> size,
      text |-> text, pages |-> pages ]

isSupportedDocument(file) == file.ext \in SupportedExtensions

\* a page of a PDF that cannot be got, read or rendered
BrokenPage == << "<unrenderable>" >>

\* the result of processPDF and of processDocument when they throw
Failure(message) ==
    [ threw |-> TRUE, textContent |-> message, hasPages |-> FALSE,
      pages |-> << >> ]

\* a variant of the page loop that leaves a page out when it cannot be
\* rendered and goes on with the next
RECURSIVE processPDFSkipping(_, _, _, _)
processPDFSkipping(file, pageNum, pages, fullTextContent) ==
    IF pageNum > Len(file.pages)
    THEN [ threw |-> FALSE, textContent |-> fullTextContent,
           hasPages |-> TRUE, pages |-> pages ]
    ELSE IF file.pages[pageNum] = BrokenPage
    THEN processPDFSkipping(file, pageNum + 1, pages, fullTextContent)
    ELSE processPDFSkipping(file, pageNum + 1,
            Append(pages, [ pageNumber |-> pageNum,
                            imageBase64 |-> << "jpeg", file.name,
                                               ToString(pageNum) >>,
                            textContent |-> file.pages[pageNum] ]),
            fullTextContent \o << "Page", ToString(pageNum), "\n" >>
                \o file.pages[pageNum] \o << "\n", "\n" >>)

\* the loop of processPDF from page pageNum on: a page that fails throws out
\* of the loop into the catch of processPDF, which throws in its turn
RECURSIVE processPDFLoop(_, _, _, _)
processPDFLoop(file, pageNum, pages, fullTextContent) ==
    IF pageNum > Len(file.pages)
    THEN [ threw |-> FALSE, textContent |-> fullTextContent,
           hasPages |-> TRUE, pages |-> pages ]
    ELSE IF file.pages[pageNum] = BrokenPage
    THEN Failure(<< "Failed to process PDF" >>)
    ELSE processPDFLoop(file, pageNum + 1,
            Append(pages, [ pageNumber |-> pageNum,
                            imageBase64 |-> << "jpeg", file.name,
                                               ToString(pageNum) >>,
                            textContent |-> file.pages[pageNum] ]),
            fullTextContent \o << "Page", ToString(pageNum), "\n" >>
                \o file.pages[pageNum] \o << "\n", "\n" >>)

\* processPDF on a document that opens
processPDF(file) == processPDFLoop(file, 1, << >>, << >>)

UnsupportedMark == "Unsupported file type:"

\* processDocument; readable = FALSE when reading or rendering fails
processDocument(file, readable) ==
    IF file.ext = "pdf"
    THEN IF readable THEN processPDF(file)
         ELSE [ threw |-> TRUE, textContent |-> << "Failed to process PDF" >>,
                hasPages |-> FALSE, pages |-> << >> ]
    ELSE IF file.ext \in SupportedExtensions
    THEN IF readable
         THEN [ threw |-> FALSE, textContent |-> file.text,
                hasPages |-> FALSE, pages |-> << >> ]
         ELSE [ threw |-> TRUE,
                textContent |-> << "Failed to process text document" >>,
                hasPages |-> FALSE, pages |-> << >> ]
    ELSE [ threw |-> TRUE, textContent |-> << UnsupportedMark, file.ext >>,
           hasPages |-> FALSE, pages |-> << >> ]

\* FileAttachment (url, the preview reference, is left out)
Attachment(id, file, content, hasPages, pages) ==
    [ id |-> id, name |-> file.name, type |-> file.type, size |-> file.size,
      content |-> content, hasPages |-> hasPages, documentPages |-> pages ]

\* The body of the loop of handleFileSelect for one file whose read has
\* completed: the attachment pushed (0 or 1) and the alert shown (0 or 1).
ProcessFile(id, file, readable) ==
    IF file.type \in ImageTypes
    THEN IF readable
         THEN [ pushed |-> << Attachment(id, file,
                                 << "data:", file.type, ";base64," >>
                                 \o file.text, FALSE, << >>) >>,
                alerts |-> << >> ]
         ELSE [ pushed |-> << >>,
                alerts |-> << << "Error reading file", file.name >> >> ]
    ELSE IF isSupportedDocument(file)
    THEN LET result == processDocument(file, readable)
         IN IF result.threw
            THEN [ pushed |-> << >>,
                   alerts |-> << << "Error processing document", file.name >>
                                 \o result.textContent >> ]
            ELSE [ pushed |-> << Attachment(id, file, result.textContent,
                                            result.hasPages, result.pages) >>,
                   alerts |-> << >> ]
    ELSE IF readable
         THEN [ pushed |-> << Attachment(id, file, file.text, FALSE, << >>) >>,
                alerts |-> << >> ]
         ELSE [ pushed |-> << >>,
                alerts |-> << << "Error reading file", file.name >> >> ]

\* a variant of the loop that lets a file of any size through
SkipNothing(files, i, shown) == [ stop |-> i, alerts |-> shown ]

\* The loop of handleFileSelect from file i up to its next await: oversized
\* files are skipped with an alert; the loop stops at the first file to read
\* (stop = its index) or runs off the end (stop = Len(files) + 1).
RECURSIVE SkipOversized(_, _, _)
SkipOversized(files, i, shown) ==
    IF i > Len(files) THEN [ stop |-> i, alerts |-> shown ]
    ELSE IF files[i].size > MaxFileSize
         THEN SkipOversized(files, i + 1,
                 Append(shown, << "File", files[i].name, "is too large" >>))
         ELSE [ stop |-> i, alerts |-> shown ]

----------------------------------------------------------------------------
(* getPreviousContext, createModePrompt and the request of getActualAIResponse. *)

\* chatMessages.slice(-6)
RecentMessages(log) ==
    SubSeq(log, IF Len(log) > 6 THEN Len(log) - 5 ELSE 1, Len(log))

\* attachment.documentPages is defined and holds at least one page
HasPages(att) == att.hasPages /\ Len(att.documentPages) > 0

\* the note on one attachment of an earlier message
AttachmentInfo(att) ==
    IF HasPages(att)
    THEN << "[PDF:", att.name, ToString(Len(att.documentPages)),
            "pages as images]" >>
    ELSE << "[Attachment:", att.name, att.type, "]" >>

\* one message of the context: `${msg.role}: ${msg.content}` and its notes
ContextMessage(msg) ==
    << msg.role, ":" >> \o msg.content
    \o (IF Len(msg.attachments) > 0
        THEN << "\n" >>
             \o Join([ i \in 1..Len(msg.attachments) |->
                         AttachmentInfo(msg.attachments[i]) ], << ", " >>)
        ELSE << >>)

\* a variant that drops the system messages before it takes the last six
getPreviousContextFilterFirst(log) ==
    LET kept == RecentMessages(SelectSeq(log,
                                         LAMBDA msg : msg.role # "system"))
        contextMessages ==
            Join([ i \in 1..Len(kept) |-> ContextMessage(kept[i]) ],
                 << "\n", "\n" >>)
    IN IF contextMessages # << >>
       THEN << "Previous conversation context:", "\n" >> \o contextMessages
            \o << "\n", "\n" >>
       ELSE << >>

\* log is the chatMessages of the render the handler closed over
getPreviousContext(log) ==
    LET kept == SelectSeq(RecentMessages(log),
                          LAMBDA msg : msg.role # "system")
        contextMessages ==
            Join([ i \in 1..Len(kept) |-> ContextMessage(kept[i]) ],
                 << "\n", "\n" >>)
    IN IF contextMessages # << >>
       THEN << "Previous conversation context:", "\n" >> \o contextMessages
            \o << "\n", "\n" >>
       ELSE << >>

\* a variant that inlines the content of every attachment, images included
AttachmentTextInline(i, att) ==
    IF ~att.hasPages
    THEN << "\n", ToString(i), att.name, att.type,
            ToString(RoundKB(att.size)), "KB", "\n" >>
         \o att.content \o << "\n" >>
    ELSE << "\n", ToString(i), att.name, "PDF with",
            ToString(Len(att.documentPages)), "pages", "\n" >>
         \o att.content \o << "\n" >>

\* the part of attachmentContext for attachment number i
AttachmentText(i, att) ==
    IF att.type \notin ImageTypes /\ ~att.hasPages
    THEN << "\n", ToString(i), att.name, att.type,
            ToString(RoundKB(att.size)), "KB", "\n" >>
         \o att.content \o << "\n" >>
    ELSE IF att.hasPages
    THEN << "\n", ToString(i), att.name, "PDF with",
            ToString(Len(att.documentPages)), "pages", "\n" >>
         \o att.content \o << "\n" >>
    ELSE << >>

AttachmentContext(atts) ==
    IF Len(atts) > 0
    THEN << "\n", "\n", "Attached files:", "\n" >>
         \o Concat([ i \in 1..Len(atts) |-> AttachmentText(i, atts[i]) ])
    ELSE << >>

CodeModeHeader == "You are in CODE MODE."

CodeModeFooter == "Respond with code only."

WebappModeHeader == "You are in WEBAPP MODE."

WebappModeFooter == "Respond with a single HTML code block only."

\* User request: "${userMessage}"
UserRequest(userMessage) ==
    << "User request:", "<quote>" >> \o userMessage \o << "<quote>" >>

\* a variant that puts the custom system prompt first in every mode
createModePromptEverywhere(userMessage, mode, atts, log, enabled, prompt) ==
    LET baseContext == getPreviousContext(log) \o AttachmentContext(atts)
        custom == IF enabled /\ Trim(prompt) # << >>
                  THEN Trim(prompt) \o << "\n", "\n" >> ELSE << >>
    IN CASE mode = "code" ->
              custom \o baseContext \o << CodeModeHeader >>
              \o UserRequest(userMessage) \o << CodeModeFooter >>
         [] mode = "webapp" ->
              custom \o baseContext \o << WebappModeHeader >>
              \o UserRequest(userMessage) \o << WebappModeFooter >>
         [] OTHER ->
              IF custom # << >>
              THEN custom \o baseContext \o UserRequest(userMessage)
              ELSE baseContext \o userMessage

\* a variant that wraps the user text in normal mode as well
createModePromptWrapped(userMessage, mode, atts, log, enabled, prompt) ==
    LET baseContext == getPreviousContext(log) \o AttachmentContext(atts)
    IN CASE mode = "code" ->
              baseContext \o << CodeModeHeader >> \o UserRequest(userMessage)
              \o << CodeModeFooter >>
         [] mode = "webapp" ->
              baseContext \o << WebappModeHeader >>
              \o UserRequest(userMessage) \o << WebappModeFooter >>
         [] OTHER ->
              (IF enabled /\ Trim(prompt) # << >>
               THEN Trim(prompt) \o << "\n", "\n" >> ELSE << >>)
              \o baseContext \o UserRequest(userMessage)

\* enabled and prompt are systemPromptEnabled and customSystemPrompt
createModePrompt(userMessage, mode, atts, log, enabled, prompt) ==
    LET baseContext == getPreviousContext(log) \o AttachmentContext(atts)
    IN CASE mode = "code" ->
              baseContext \o << CodeModeHeader >> \o UserRequest(userMessage)
              \o << CodeModeFooter >>
         [] mode = "webapp" ->
              baseContext \o << WebappModeHeader >>
              \o UserRequest(userMessage) \o << WebappModeFooter >>
         [] OTHER ->
              IF enabled /\ Trim(prompt) # << >>
              THEN Trim(prompt) \o << "\n", "\n" >> \o baseContext
                   \o UserRequest(userMessage)
              ELSE baseContext \o userMessage

\* attachments?.some(att => image || documentPages with a page)
hasImages(atts) ==
    \E k \in 1..Len(atts) : atts[k].type \in ImageTypes \/ HasPages(atts[k])

\* the text after the first comma of a data URL (the whole text without one)
extractBase64FromDataURL(dataURL) ==
    IF \E i \in 1..Len(dataURL) : dataURL[i] = ";base64,"
    THEN LET base64Index ==
                 CHOOSE i \in 1..Len(dataURL) :
                    /\ dataURL[i] = ";base64,"
                    /\ \A j \in 1..(i - 1) : dataURL[j] # ";base64,"
         IN SubSeq(dataURL, base64Index + 1, Len(dataURL))
    ELSE dataURL

\* an entry of the content of a request: the text, or image data with its
\* type (inline_data of provider A, image_url of provider B)
TextEntry(prompt) == [ type |-> "text", mime |-> "", data |-> prompt ]

InlineData(mime, data) ==
    [ type |-> "inline_data", mime |-> mime, data |-> data ]

ImageUrl(url) == [ type |-> "image_url", mime |-> "", data |-> url ]

\* the parts pushed for one attachment by the forEach of provider A
GeminiInlineParts(att) ==
    IF att.type \in ImageTypes
    THEN << InlineData(att.type, extractBase64FromDataURL(att.content)) >>
    ELSE IF att.hasPages
    THEN [ p \in 1..Len(att.documentPages) |->
             InlineData("image/jpeg", att.documentPages[p].imageBase64) ]
    ELSE << >>

\* a variant for provider B that sends the first page of a PDF only
OpenAIFirstPage(att) ==
    IF att.type \in ImageTypes THEN << ImageUrl(att.content) >>
    ELSE IF att.hasPages /\ Len(att.documentPages) > 0
    THEN << ImageUrl(<< "data:", "image/jpeg", ";base64," >>
                     \o att.documentPages[1].imageBase64) >>
    ELSE << >>

\* the entries pushed for one attachment by the forEach of provider B
OpenAIContent(att) ==
    IF att.type \in ImageTypes THEN << ImageUrl(att.content) >>
    ELSE IF att.hasPages
    THEN [ p \in 1..Len(att.documentPages) |->
             ImageUrl(<< "data:", "image/jpeg", ";base64," >>
                      \o att.documentPages[p].imageBase64) ]
    ELSE << >>

\* The content of the request: for provider A requestBody.contents[0].parts,
\* for provider B messages[0].content, which is the bare prompt (plain) when
\* there is nothing visual to send.
Request(provider, prompt, atts) ==
    IF provider = "Gemini"
    THEN [ plain |-> FALSE,
           entries |->
              IF hasImages(atts)
              THEN << TextEntry(prompt) >>
                   \o Concat([ k \in 1..Len(atts) |-> GeminiInlineParts(atts[k]) ])
              ELSE << TextEntry(prompt) >> ]
    ELSE IF hasImages(atts)
    THEN [ plain |-> FALSE,
           entries |->
              << TextEntry(prompt) >>
              \o Concat([ k \in 1..Len(atts) |-> OpenAIContent(atts[k]) ]) ]
    ELSE [ plain |-> TRUE, entries |-> << TextEntry(prompt) >> ]

----------------------------------------------------------------------------
(* State of the program after construction. *)

\* App: the unconfigured appState
NullState ==
    [ provider |-> "null", model |-> "null", apiKey |-> "", baseURL |-> << >> ]

\* ProviderSelection: the initial values of its useState hooks
ProviderSelectionMount ==
    [ step |-> "provider", selectedProvider |-> << >>,
      selectedOpenAIProvider |-> << >>, apiKey |-> "", baseURL |-> "",
      customBaseURL |-> "", selectedModel |-> "", availableModels |-> << >>,
      isLoading |-> FALSE ]

Init ==
    /\ isConfigured = FALSE
    /\ appState = NullState
    /\ chatMessages = << >>
    /\ currentMode = "none"
    /\ isTyping = FALSE
    /\ inflight = << >>
    /\ attachments = << >>
    /\ processingFiles = {}
    /\ batch = << >>
    /\ clipboard = << >>
    /\ download = << >>
    /\ clock = 0
    /\ fetchCount = 0
    /\ alerts = << >>
    /\ customSystemPrompt = << >>
    /\ systemPromptEnabled = FALSE
    /\ providerSelection = ProviderSelectionMount

\* Room on the clock for n new messages, keeping one tick for the answer of
\* a request that will still be in flight (pending = 0 or 1).
Room(n, pending) == clock + n + pending <= MaxClock

----------------------------------------------------------------------------
(* App: configuration. *)

\* MainInterface is mounted with the initial values of its useState hooks
\* and of those of InputArea; it is unmounted with them discarded, and an
\* unmounted component's suspended handlers no longer reach any state.
ComponentReset ==
    /\ currentMode' = "none"
    /\ isTyping' = FALSE
    /\ inflight' = << >>
    /\ attachments' = << >>
    /\ processingFiles' = {}
    /\ batch' = << >>

\* App.handleProviderSelect, then the mount of MainInterface and its
\* welcome effect
handleProviderSelect(cfg) ==
    /\ ~isConfigured
    /\ isConfigured' = TRUE
    /\ appState' = cfg
    /\ ComponentReset
    /\ IF Len(chatMessages) = 0
       THEN /\ Room(1, 0)
            /\ chatMessages' = << Msg("system", WelcomeText(cfg), clock + 1,
                                      << >>, << >>) >>
            /\ clock' = clock + 1
       ELSE UNCHANGED << chatMessages, clock >>
    /\ UNCHANGED alerts
    /\ UNCHANGED << clipboard, download, fetchCount >>
    /\ UNCHANGED << customSystemPrompt, systemPromptEnabled >>
    /\ providerSelection' = ProviderSelectionMount

\* a variant that hides the chat and keeps the configuration
handleChangeProviderStale ==
    /\ isConfigured
    /\ isConfigured' = FALSE
    /\ ComponentReset
    /\ UNCHANGED alerts
    /\ UNCHANGED << appState, chatMessages, clipboard, download, clock,
                    fetchCount >>
    /\ UNCHANGED << customSystemPrompt, systemPromptEnabled >>
    /\ UNCHANGED providerSelection

\* App.handleChangeProvider, reached from the settings button
handleChangeProvider ==
    /\ isConfigured
    /\ isConfigured' = FALSE
    /\ appState' = NullState
    /\ ComponentReset
    /\ UNCHANGED alerts
    /\ UNCHANGED << chatMessages, clipboard, download, clock, fetchCount >>
    /\ UNCHANGED << customSystemPrompt, systemPromptEnabled >>
    /\ UNCHANGED providerSelection

\* ModeSelector: onModeChange(mode)
onModeChange(mode) ==
    /\ isConfigured
    /\ currentMode' = mode
    /\ UNCHANGED alerts
    /\ UNCHANGED << isConfigured, appState, chatMessages, isTyping, inflight,
                    attachments, processingFiles, batch, clipboard, download,
                    clock, fetchCount >>
    /\ UNCHANGED << customSystemPrompt, systemPromptEnabled >>
    /\ UNCHANGED providerSelection

----------------------------------------------------------------------------
(* ProviderSelection, the wizard shown while the app is not configured. *)

\* the table of OpenAI-compatible providers
openAIProviders ==
    << [ name |-> "OpenAI", baseURL |-> "https://api.openai.com/v1",
         requiresApiKey |-> TRUE, isCustom |-> FALSE, fetchModels |-> TRUE ],
       [ name |-> "OpenRouter", baseURL |-> "https://openrouter.ai/api/v1",
         requiresApiKey |-> TRUE, isCustom |-> FALSE, fetchModels |-> FALSE ],
       [ name |-> "Ollama", baseURL |-> "http://localhost:11434/v1",
         requiresApiKey |-> FALSE, isCustom |-> FALSE, fetchModels |-> FALSE ],
       [ name |-> "Custom Provider", baseURL |-> "",
         requiresApiKey |-> TRUE, isCustom |-> TRUE, fetchModels |-> FALSE ] >>

\* !value.trim() for the texts typed into the wizard
IsBlankString(value) == value \in { "", " " }

\* selectedOpenAIProvider?.field, undefined read as false
OfSelected(field) ==
    /\ providerSelection.selectedOpenAIProvider # << >>
    /\ providerSelection.selectedOpenAIProvider[1][field]

\* the model step lists fetched models instead of asking for a name
ListsModels ==
    \/ providerSelection.selectedProvider = << "Gemini" >>
    \/ /\ providerSelection.selectedProvider = << "OpenAI" >>
       /\ OfSelected("fetchModels")

\* a step of the wizard: nothing outside the component changes
WizardStep(next) ==
    /\ ~isConfigured
    /\ providerSelection' = next
    /\ UNCHANGED << isConfigured, appState, chatMessages, currentMode,
                    isTyping, inflight, attachments, processingFiles, batch,
                    clipboard, download, clock, fetchCount, alerts,
                    customSystemPrompt, systemPromptEnabled >>

\* ProviderSelection.handleProviderSelect, the two buttons of the first step
ProviderSelection_handleProviderSelect(provider) ==
    /\ providerSelection.step = "provider"
    /\ WizardStep([ providerSelection EXCEPT
           !.selectedProvider = << provider >>,
           !.step = IF provider = "OpenAI" THEN "openai-provider"
                    ELSE "apikey" ])

\* an entry of the provider dropdown
handleOpenAIProviderSelect(provider) ==
    /\ providerSelection.step = "openai-provider"
    /\ WizardStep(
         IF provider.isCustom
         THEN [ providerSelection EXCEPT
                  !.selectedOpenAIProvider = << provider >>,
                  !.step = "custom-url" ]
         ELSE IF ~provider.requiresApiKey
         THEN [ providerSelection EXCEPT
                  !.selectedOpenAIProvider = << provider >>,
                  !.baseURL = provider.baseURL,
                  !.apiKey = "ollama-local",
                  !.step = "model" ]
         ELSE [ providerSelection EXCEPT
                  !.selectedOpenAIProvider = << provider >>,
                  !.baseURL = provider.baseURL,
                  !.step = "apikey" ])

\* the Continue button of the openai-provider step
Continue ==
    /\ providerSelection.step = "openai-provider"
    /\ providerSelection.selectedOpenAIProvider # << >>
    /\ WizardStep([ providerSelection EXCEPT
           !.step = IF OfSelected("isCustom") THEN "custom-url"
                    ELSE IF OfSelected("requiresApiKey") THEN "apikey"
                    ELSE "model" ])

\* the URL field of the custom-url step
setCustomBaseURL(value) ==
    /\ providerSelection.step = "custom-url"
    /\ WizardStep([ providerSelection EXCEPT !.customBaseURL = value ])

handleCustomURLSubmit ==
    /\ providerSelection.step = "custom-url"
    /\ WizardStep(
         IF IsBlankString(providerSelection.customBaseURL)
         THEN providerSelection
         ELSE [ providerSelection EXCEPT
                  !.baseURL = providerSelection.customBaseURL,
                  !.step = "apikey" ])

\* the key field of the apikey step, disabled while models are fetched
setApiKey(value) ==
    /\ providerSelection.step = "apikey"
    /\ ~providerSelection.isLoading
    /\ WizardStep([ providerSelection EXCEPT !.apiKey = value ])

\* handleApiKeySubmit up to its await
handleApiKeySubmit ==
    /\ providerSelection.step = "apikey"
    /\ ~providerSelection.isLoading
    /\ WizardStep(
         IF /\ providerSelection.selectedOpenAIProvider # << >>
            /\ providerSelection.selectedOpenAIProvider[1].name = "Ollama"
         THEN [ providerSelection EXCEPT
                  !.apiKey = "ollama-local", !.step = "model" ]
         ELSE IF IsBlankString(providerSelection.apiKey)
         THEN providerSelection
         ELSE IF ListsModels
         THEN [ providerSelection EXCEPT !.isLoading = TRUE ]
         ELSE [ providerSelection EXCEPT !.step = "model" ])

\* handleApiKeySubmit after its await: the models endpoint has answered
\* with a list of models; no list stands for every failure
ModelsFetched(models) ==
    /\ providerSelection.isLoading
    /\ WizardStep(
         IF Len(models) = 0
         THEN [ providerSelection EXCEPT
                  !.apiKey = "", !.isLoading = FALSE ]
         ELSE [ providerSelection EXCEPT
                  !.availableModels = models,
                  !.step = "model", !.isLoading = FALSE ])

\* the name field of the model step
setSelectedModel(value) ==
    /\ providerSelection.step = "model"
    /\ ~ListsModels
    /\ WizardStep([ providerSelection EXCEPT !.selectedModel = value ])

\* the arguments of onProviderSelect
Config(provider, model, apiKey, baseURL) ==
    [ provider |-> provider, model |-> model, apiKey |-> apiKey,
      baseURL |-> baseURL ]

\* handleModelSelect: the configuration is handed over to App
handleModelSelect(model) ==
    handleProviderSelect(
        Config(IF providerSelection.selectedProvider = << >> THEN "null"
               ELSE providerSelection.selectedProvider[1],
               model,
               providerSelection.apiKey,
               IF providerSelection.selectedProvider = << "OpenAI" >>
               THEN << providerSelection.baseURL >> ELSE << >>))

\* a button of the list of fetched models
ModelButton ==
    /\ providerSelection.step = "model"
    /\ ListsModels
    /\ \E i \in 1..Len(providerSelection.availableModels) :
           handleModelSelect(providerSelection.availableModels[i])

\* the Continue button and the Enter key of the name field
ModelEntry ==
    /\ providerSelection.step = "model"
    /\ ~ListsModels
    /\ ~IsBlankString(providerSelection.selectedModel)
    /\ handleModelSelect(providerSelection.selectedModel)

goBack ==
    /\ providerSelection.step # "provider"
    /\ ~providerSelection.isLoading
    /\ WizardStep(
         CASE providerSelection.step = "openai-provider" ->
                [ providerSelection EXCEPT
                    !.step = "provider",
                    !.selectedProvider = << >>,
                    !.selectedOpenAIProvider = << >>,
                    !.baseURL = "",
                    !.customBaseURL = "" ]
           [] providerSelection.step = "custom-url" ->
                [ providerSelection EXCEPT
                    !.step = "openai-provider",
                    !.customBaseURL = "" ]
           [] providerSelection.step = "apikey" ->
                IF providerSelection.selectedProvider = << "OpenAI" >>
                THEN [ providerSelection EXCEPT
                         !.step = IF OfSelected("isCustom") THEN "custom-url"
                                  ELSE "openai-provider",
                         !.apiKey = "" ]
                ELSE [ providerSelection EXCEPT
                         !.step = "provider",
                         !.selectedProvider = << >>,
                         !.apiKey = "" ]
           [] providerSelection.step = "model" ->
                IF ListsModels
                THEN [ providerSelection EXCEPT
                         !.step = "apikey",
                         !.availableModels = << >>,
                         !.selectedModel = "" ]
                ELSE [ providerSelection EXCEPT
                         !.step = "apikey",
                         !.selectedModel = "" ])

----------------------------------------------------------------------------
(* SystemPromptInput, shown in normal mode only. *)

\* the toggle button: onToggle(!enabled)
onToggle ==
    /\ isConfigured
    /\ currentMode = "none"
    /\ systemPromptEnabled' = ~systemPromptEnabled
    /\ UNCHANGED << isConfigured, appState, chatMessages, currentMode,
                    isTyping, inflight, attachments, processingFiles, batch,
                    clipboard, download, clock, fetchCount, alerts,
                    customSystemPrompt, providerSelection >>

\* the text area, disabled unless the prompt is switched on: onChange(value)
onChange(value) ==
    /\ isConfigured
    /\ currentMode = "none"
    /\ systemPromptEnabled
    /\ customSystemPrompt' = value
    /\ UNCHANGED << isConfigured, appState, chatMessages, currentMode,
                    isTyping, inflight, attachments, processingFiles, batch,
                    clipboard, download, clock, fetchCount, alerts,
                    systemPromptEnabled, providerSelection >>

----------------------------------------------------------------------------
(* InputArea.handleSubmit and what it calls. *)

\* tokens that begin with the slash character
SlashWords ==
    { "/", "/help", "/clear", "/model", "/copy", "/code", "/webapp",
      "/savecon", "/loadcon", "/foo" }

\* a variant that takes only the documented commands for slash input
StartsWithKnownCommand(input) ==
    Len(input) > 0 /\ Head(input) \in SlashWords \ { "/", "/foo" }

\* input.startsWith('/')
StartsWithSlash(input) == Len(input) > 0 /\ Head(input) \in SlashWords

\* a variant of the early return that does not look at the files in
\* processing
SubmitBlockedIgnoringFiles(input) ==
    \/ (Trim(input) = << >> /\ Len(attachments) = 0)
    \/ isTyping

\* the early return of handleSubmit
SubmitBlocked(input) ==
    \/ (Trim(input) = << >> /\ Len(attachments) = 0)
    \/ isTyping
    \/ Cardinality(processingFiles) > 0

\* handleSubmit, input beginning with a slash: onCommandExecute
SubmitCommand(input) ==
    /\ isConfigured
    /\ ~SubmitBlocked(input)
    /\ StartsWithSlash(input)
    /\ LET pieces == Split(input)
           e == handleCommandExecute(pieces[1], Tail(pieces), chatMessages,
                                     currentMode, clock)
       IN /\ Room(e.created, 0)
          /\ chatMessages' = setChatMessages(chatMessages, e.updates)
          /\ clock' = clock + e.created
          /\ download' = IF e.dl # << >> THEN e.dl ELSE download
          \* copyToClipboard: writeText resolves or rejects (caught)
          /\ \E written \in BOOLEAN :
                clipboard' = IF e.clip # << >> /\ written THEN e.clip[1]
                             ELSE clipboard
          /\ IF e.changeProvider
             THEN /\ isConfigured' = FALSE
                  /\ appState' = NullState
                  /\ ComponentReset
             ELSE /\ currentMode' = e.mode
                  /\ attachments' = << >>
                  /\ UNCHANGED << isConfigured, appState, isTyping, inflight,
                                  processingFiles, batch >>
    /\ UNCHANGED alerts
    /\ UNCHANGED fetchCount
    /\ UNCHANGED << customSystemPrompt, systemPromptEnabled >>
    /\ UNCHANGED providerSelection

\* a variant that builds the prompt over the log with the new message in it
SubmitMessageOwnContext(input) ==
    /\ isConfigured
    /\ ~SubmitBlocked(input)
    /\ ~StartsWithSlash(input)
    /\ Room(1, 1)
    /\ LET message == IF input = << >> THEN DefaultDirective ELSE input
           userMessage == Msg("user", message, clock + 1, << >>, attachments)
       IN /\ chatMessages' = setChatMessages(chatMessages,
                                << Update(TRUE, << userMessage >>) >>)
          /\ inflight' =
                << [ userMessage |-> message, mode |-> currentMode,
                     attachments |-> attachments,
                     initialState |-> appState,
                     request |-> Request(appState.provider,
                                    createModePrompt(message, currentMode,
                                        attachments,
                                        Append(chatMessages, userMessage),
                                        systemPromptEnabled,
                                        customSystemPrompt),
                                    attachments) ] >>
    /\ clock' = clock + 1
    /\ isTyping' = TRUE
    /\ fetchCount' = fetchCount + 1
    /\ attachments' = << >>
    /\ UNCHANGED alerts
    /\ UNCHANGED << isConfigured, appState, currentMode, processingFiles,
                    batch, clipboard, download >>
    /\ UNCHANGED << customSystemPrompt, systemPromptEnabled >>
    /\ UNCHANGED providerSelection

\* handleSubmit, any other input: onSendMessage = handleSendMessage, which
\* runs simulateAIResponse up to its await of fetch.  (The branch of
\* simulateAIResponse for a message beginning with a slash is never taken:
\* handleSubmit sends no such message.)
SubmitMessage(input) ==
    /\ isConfigured
    /\ ~SubmitBlocked(input)
    /\ ~StartsWithSlash(input)
    /\ Room(1, 1)
    /\ LET message == IF input = << >> THEN DefaultDirective ELSE input
           userMessage == Msg("user", message, clock + 1, << >>, attachments)
       IN /\ chatMessages' = setChatMessages(chatMessages,
                                << Update(TRUE, << userMessage >>) >>)
          /\ inflight' =
                << [ userMessage |-> message, mode |-> currentMode,
                     attachments |-> attachments,
                     initialState |-> appState,
                     request |-> Request(appState.provider,
                                    createModePrompt(message, currentMode,
                                        attachments, chatMessages,
                                        systemPromptEnabled,
                                        customSystemPrompt),
                                    attachments) ] >>
    /\ clock' = clock + 1
    /\ isTyping' = TRUE
    /\ fetchCount' = fetchCount + 1
    /\ attachments' = << >>
    /\ UNCHANGED alerts
    /\ UNCHANGED << isConfigured, appState, currentMode, processingFiles,
                    batch, clipboard, download >>
    /\ UNCHANGED << customSystemPrompt, systemPromptEnabled >>
    /\ UNCHANGED providerSelection

\* a variant that stamps the answer with the time of the message it answers
RespondAtSendTime(resp) ==
    /\ Len(inflight) = 1
    /\ LET asked == { k \in 1..Len(chatMessages) :
                        chatMessages[k].role = "user" }
           sent == IF asked = {} THEN clock + 1
                   ELSE chatMessages[CHOOSE k \in asked :
                                        \A j \in asked : j <= k].timestamp
           aiMessage == [ AIMessage(inflight[1].initialState, resp, clock)
                             EXCEPT !.timestamp = sent ]
       IN chatMessages' = setChatMessages(chatMessages,
                              << Update(TRUE, << aiMessage >>) >>)
    /\ clock' = clock + 1
    /\ isTyping' = FALSE
    /\ inflight' = << >>
    /\ UNCHANGED alerts
    /\ UNCHANGED << isConfigured, appState, currentMode, attachments,
                    processingFiles, batch, clipboard, download, fetchCount >>
    /\ UNCHANGED << customSystemPrompt, systemPromptEnabled >>
    /\ UNCHANGED providerSelection

\* simulateAIResponse resumed by the answer of the provider
Respond(resp) ==
    /\ Len(inflight) = 1
    /\ chatMessages' = setChatMessages(chatMessages,
           << Update(TRUE, << AIMessage(inflight[1].initialState, resp,
                                        clock) >>) >>)
    /\ clock' = clock + 1
    /\ isTyping' = FALSE
    /\ inflight' = << >>
    /\ UNCHANGED alerts
    /\ UNCHANGED << isConfigured, appState, currentMode, attachments,
                    processingFiles, batch, clipboard, download, fetchCount >>
    /\ UNCHANGED << customSystemPrompt, systemPromptEnabled >>
    /\ UNCHANGED providerSelection

----------------------------------------------------------------------------
(* The header buttons of MainInterface. *)

\* a variant that also gives up the request in flight
handleClearChatCancelling ==
    /\ isConfigured
    /\ Room(1, Len(inflight))
    /\ chatMessages' = setChatMessages(chatMessages,
           << Update(FALSE, << >>),
              Update(FALSE, << Msg("system", ClearAckText, clock + 1,
                                   << >>, << >>) >>) >>)
    /\ clock' = clock + 1
    /\ isTyping' = FALSE
    /\ inflight' = << >>
    /\ UNCHANGED alerts
    /\ UNCHANGED << isConfigured, appState, currentMode, attachments,
                    processingFiles, batch, clipboard, download, fetchCount >>
    /\ UNCHANGED << customSystemPrompt, systemPromptEnabled >>
    /\ UNCHANGED providerSelection

\* a variant of the clear button that keeps the log and adds its notice
handleClearChatKeep ==
    /\ isConfigured
    /\ Room(1, Len(inflight))
    /\ chatMessages' = setChatMessages(chatMessages,
           << Update(TRUE, << Msg("system", ClearAckText, clock + 1,
                                  << >>, << >>) >>) >>)
    /\ clock' = clock + 1
    /\ UNCHANGED << isConfigured, appState, currentMode, isTyping, inflight,
                    attachments, processingFiles, batch, clipboard, download,
                    fetchCount, alerts >>
    /\ UNCHANGED << customSystemPrompt, systemPromptEnabled >>
    /\ UNCHANGED providerSelection

handleClearChat ==
    /\ isConfigured
    /\ Room(1, Len(inflight))
    /\ chatMessages' = setChatMessages(chatMessages,
           << Update(FALSE, << >>),
              Update(FALSE, << Msg("system", ClearAckText, clock + 1,
                                   << >>, << >>) >>) >>)
    /\ clock' = clock + 1
    /\ UNCHANGED alerts
    /\ UNCHANGED << isConfigured, appState, currentMode, isTyping, inflight,
                    attachments, processingFiles, batch, clipboard, download,
                    fetchCount >>
    /\ UNCHANGED << customSystemPrompt, systemPromptEnabled >>
    /\ UNCHANGED providerSelection

SaveConversation ==
    /\ isConfigured
    /\ Room(1, Len(inflight))
    /\ LET s == handleSaveConversation(chatMessages, clock)
       IN /\ chatMessages' = setChatMessages(chatMessages, s.updates)
          /\ download' = s.dl
    /\ clock' = clock + 1
    /\ UNCHANGED alerts
    /\ UNCHANGED << isConfigured, appState, currentMode, isTyping, inflight,
                    attachments, processingFiles, batch, clipboard,
                    fetchCount >>
    /\ UNCHANGED << customSystemPrompt, systemPromptEnabled >>
    /\ UNCHANGED providerSelection

\* handleLoadConversation: reader.onload for a file with this text
LoadConversation(name, content) ==
    /\ isConfigured
    /\ LET newMessages == ParseTranscript(content, clock)
           loadMessage == Msg("system", LoadedText(name, Len(newMessages)),
                              clock + Len(newMessages) + 1, << >>, << >>)
       IN /\ Room(Len(newMessages) + 1, Len(inflight))
          /\ chatMessages' = setChatMessages(chatMessages,
                 << Update(FALSE, newMessages),
                    Update(TRUE, << loadMessage >>) >>)
          /\ clock' = clock + Len(newMessages) + 1
    /\ UNCHANGED alerts
    /\ UNCHANGED << isConfigured, appState, currentMode, isTyping, inflight,
                    attachments, processingFiles, batch, clipboard, download,
                    fetchCount >>
    /\ UNCHANGED << customSystemPrompt, systemPromptEnabled >>
    /\ UNCHANGED providerSelection

----------------------------------------------------------------------------
(* InputArea: handleFileSelect and removeAttachment. *)

\* files selected and not yet sent or removed, over all batches
MaxFiles == 2

\* `${Date.now()}-${i}`: the batch's time and the file's index.  Only the
\* distinctness of ids is used by the program, so the time is taken as the
\* least one that no pending attachment carries.
FreshTime(atts) ==
    CHOOSE n \in 1..(Len(atts) + 1) :
        /\ \A k \in 1..Len(atts) : atts[k].id[1] # n
        /\ \A m \in 1..(n - 1) : \E k \in 1..Len(atts) : atts[k].id[1] = m

AttachmentId(time, i) == << time, i >>

\* handleFileSelect from its start to its first await (or to its end when
\* no file is left to read).  The attach button is disabled while a request
\* or a batch is running.
handleFileSelect(files) ==
    /\ isConfigured
    /\ ~isTyping
    /\ Cardinality(processingFiles) = 0
    /\ Len(batch) = 0
    /\ Len(attachments) + Len(files) <= MaxFiles
    /\ LET time == FreshTime(attachments)
           sk == SkipOversized(files, 1, << >>)
       IN /\ IF sk.stop > Len(files)
             THEN /\ batch' = << >>
                  /\ processingFiles' = {}
             ELSE /\ batch' = << [ files |-> files, i |-> sk.stop,
                                   time |-> time,
                                   newAttachments |-> << >> ] >>
                  /\ processingFiles' = { AttachmentId(time, sk.stop) }
          /\ alerts' = sk.alerts
    /\ UNCHANGED << isConfigured, appState, chatMessages, currentMode,
                    isTyping, inflight, attachments, clipboard, download,
                    clock, fetchCount >>
    /\ UNCHANGED << customSystemPrompt, systemPromptEnabled >>
    /\ UNCHANGED providerSelection

\* a variant that ends the batch with setAttachments(newAttachments)
FileReadReplacing(readable) ==
    /\ Len(batch) = 1
    /\ LET b == batch[1]
           id == AttachmentId(b.time, b.i)
           r == ProcessFile(id, b.files[b.i], readable)
           newAttachments == b.newAttachments \o r.pushed
           sk == SkipOversized(b.files, b.i + 1, r.alerts)
       IN /\ IF sk.stop > Len(b.files)
             THEN /\ batch' = << >>
                  /\ processingFiles' = processingFiles \ { id }
                  /\ attachments' = newAttachments
             ELSE /\ batch' = << [ b EXCEPT !.i = sk.stop,
                                     !.newAttachments = newAttachments ] >>
                  /\ processingFiles' = (processingFiles \ { id })
                                        \cup { AttachmentId(b.time, sk.stop) }
                  /\ UNCHANGED attachments
          /\ alerts' = sk.alerts
    /\ UNCHANGED << isConfigured, appState, chatMessages, currentMode,
                    isTyping, inflight, clipboard, download, clock,
                    fetchCount >>
    /\ UNCHANGED << customSystemPrompt, systemPromptEnabled >>
    /\ UNCHANGED providerSelection

\* handleFileSelect resumed by the end of the read of file i, up to its next
\* await or to its end: setAttachments(prev => [...prev, ...newAttachments])
FileRead(readable) ==
    /\ Len(batch) = 1
    /\ LET b == batch[1]
           id == AttachmentId(b.time, b.i)
           r == ProcessFile(id, b.files[b.i], readable)
           newAttachments == b.newAttachments \o r.pushed
           sk == SkipOversized(b.files, b.i + 1, r.alerts)
       IN /\ IF sk.stop > Len(b.files)
             THEN /\ batch' = << >>
                  /\ processingFiles' = processingFiles \ { id }
                  /\ attachments' = attachments \o newAttachments
             ELSE /\ batch' = << [ b EXCEPT !.i = sk.stop,
                                     !.newAttachments = newAttachments ] >>
                  /\ processingFiles' = (processingFiles \ { id })
                                        \cup { AttachmentId(b.time, sk.stop) }
                  /\ UNCHANGED attachments
          /\ alerts' = sk.alerts
    /\ UNCHANGED << isConfigured, appState, chatMessages, currentMode,
                    isTyping, inflight, clipboard, download, clock,
                    fetchCount >>
    /\ UNCHANGED << customSystemPrompt, systemPromptEnabled >>
    /\ UNCHANGED providerSelection

removeAttachment(id) ==
    /\ isConfigured
    /\ \E k \in 1..Len(attachments) : attachments[k].id = id
    /\ attachments' = SelectSeq(attachments, LAMBDA att : att.id # id)
    /\ UNCHANGED alerts
    /\ UNCHANGED << isConfigured, appState, chatMessages, currentMode,
                    isTyping, inflight, processingFiles, batch, clipboard,
                    download, clock, fetchCount >>
    /\ UNCHANGED << customSystemPrompt, systemPromptEnabled >>
    /\ UNCHANGED providerSelection

----------------------------------------------------------------------------
(* Inputs of the environment. *)

Configs ==
    { Config("Gemini", "gemini-pro", "key", << >>),
      Config("OpenAI", "gpt-4o", "key", << "https://api.openai.com/v1" >>) }

\* what the user types
Inputs ==
    { << >>, << "hi" >>, << "/help" >>, << "/clear" >>, << "/model" >>,
      << "/copy" >>, << "/code" >>, << "/webapp" >>, << "/savecon" >>,
      << "/loadcon" >>, << "/foo" >>, << "/code", " ", "now" >> }

\* texts a provider answers with
AnswerTexts == { << "ok" >>, << FenceJs, "\n", FenceNoTag >> }

GeminiBody(candidates) == << [ candidates |-> candidates ] >>

GeminiCandidate(content) == << << [ content |-> content ] >> >>

GeminiParts(parts) == << [ parts |-> parts ] >>

\* success responses of provider A, whole and cut short at every level
GeminiResponses ==
    { Http("ok", 200,
           GeminiBody(GeminiCandidate(GeminiParts(
               << << [ text |-> << t >> ] >> >>)))) : t \in AnswerTexts }
    \cup
    { Http("noCandidates", 200, GeminiBody(<< >>)),
      Http("emptyCandidates", 200, GeminiBody(<< << >> >>)),
      Http("noContent", 200, GeminiBody(GeminiCandidate(<< >>))),
      Http("noParts", 200, GeminiBody(GeminiCandidate(GeminiParts(<< >>)))),
      Http("emptyParts", 200,
           GeminiBody(GeminiCandidate(GeminiParts(<< << >> >>)))),
      Http("noText", 200,
           GeminiBody(GeminiCandidate(GeminiParts(
               << << [ text |-> << >> ] >> >>)))),
      Http("emptyText", 200,
           GeminiBody(GeminiCandidate(GeminiParts(
               << << [ text |-> << << >> >> ] >> >>)))) }

OpenAIBody(choices) == << [ choices |-> choices ] >>

OpenAIChoice(message) == << << [ message |-> message ] >> >>

\* success responses of provider B, whole and cut short at every level
OpenAIResponses ==
    { Http("ok", 200,
           OpenAIBody(OpenAIChoice(<< [ content |-> << t >> ] >>)))
        : t \in AnswerTexts }
    \cup
    { Http("noChoices", 200, OpenAIBody(<< >>)),
      Http("emptyChoices", 200, OpenAIBody(<< << >> >>)),
      Http("noMessage", 200, OpenAIBody(OpenAIChoice(<< >>))),
      Http("noContent", 200,
           OpenAIBody(OpenAIChoice(<< [ content |-> << >> ] >>))),
      Http("emptyText", 200,
           OpenAIBody(OpenAIChoice(<< [ content |-> << << >> >> ] >>))) }

\* the answers a request to this provider can get
Responses(provider) ==
    { NetworkError, Http("status", 500, << >>) }
    \cup (IF provider = "Gemini" THEN GeminiResponses ELSE OpenAIResponses)

\* the answers the request in flight can get
PossibleResponses ==
    IF Len(inflight) = 1 THEN Responses(inflight[1].initialState.provider)
    ELSE {}

\* a transcript not written by this program
ForeignTranscript ==
    << "# notes", "\n", HeadingMark, "USER", "\n", "hi", "\n" >>

\* the files the user can pick in the load dialog
Transcripts ==
    { [ name |-> "notes.md", text |-> ForeignTranscript ] }
    \cup { [ name |-> "chat-conversation.md", text |-> download[k].text ]
             : k \in 1..Len(download) }

TextFile == File("n.txt", "txt", "text/plain", 1024, << "notes" >>, << >>)

ImageFile == File("a.png", "png", "image/png", 2048, << "iVBOR" >>, << >>)

PdfFile ==
    File("d.pdf", "pdf", "application/pdf", 4096, << >>,
         << << "one" >>, << "two" >> >>)

\* a PDF whose second page cannot be rendered
BrokenPdf ==
    File("b.pdf", "pdf", "application/pdf", 4096, << >>,
         << << "one" >>, BrokenPage, << "three" >> >>)

\* neither an image nor a supported extension
OtherFile ==
    File("x.exe", "exe", "application/octet-stream", 1024, << "MZ" >>, << >>)

\* one byte over the ceiling
BigFile ==
    File("big.txt", "txt", "text/plain", MaxFileSize + 1, << "long" >>, << >>)

\* the files the user can pick in the attach dialog
Files == { TextFile, ImageFile, PdfFile, BrokenPdf, OtherFile, BigFile }

\* the batches of one selection
Batches == UNION { [ 1..n -> Files ] : n \in 1..MaxBatch }

----------------------------------------------------------------------------
(* The program. *)

\* the answers explored for the request in flight: a failure, a text, a text
\* with code blocks
CommonResponses ==
    { r \in PossibleResponses : r.name \in { "network", "ok" } }

Next ==
    \/ \E cfg \in Configs : handleProviderSelect(cfg)
    \/ handleChangeProvider
    \/ \E mode \in Modes : onModeChange(mode)
    \/ \E input \in Inputs : SubmitCommand(input)
    \/ \E input \in Inputs : SubmitMessage(input)
    \/ \E resp \in CommonResponses : Respond(resp)
    \/ handleClearChat

Spec == Init /\ [][Next]_vars

\* The program with every answer of the provider, whole or malformed, and
\* plain messages only.
NextProvider ==
    \/ \E cfg \in Configs : handleProviderSelect(cfg)
    \/ handleChangeProvider
    \/ \E input \in { << >>, << "hi" >> } : SubmitMessage(input)
    \/ \E resp \in PossibleResponses : Respond(resp)
    \/ handleClearChat

SpecProvider == Init /\ [][NextProvider]_vars

\* The program with attachments: selecting, reading and removing files.
NextFiles ==
    \/ handleProviderSelect(Config("Gemini", "gemini-pro", "key", << >>))
    \/ \E files \in Batches : handleFileSelect(files)
    \/ \E readable \in BOOLEAN : FileRead(readable)
    \/ \E k \in 1..Len(attachments) : removeAttachment(attachments[k].id)

SpecFiles == Init /\ [][NextFiles]_vars

\* Saving and loading transcripts of conversations with and without
\* attachments.
TextBatches == { << TextFile >> }

\* the answers with a text
TextResponses == { r \in PossibleResponses : r.name = "ok" }

NextTranscript ==
    \/ handleProviderSelect(Config("Gemini", "gemini-pro", "key", << >>))
    \/ \E files \in TextBatches : handleFileSelect(files)
    \/ FileRead(TRUE)
    \/ SubmitMessage(<< "hi" >>)
    \/ \E resp \in TextResponses : Respond(resp)
    \/ SaveConversation
    \/ \E f \in Transcripts : LoadConversation(f.name, f.text)

SpecTranscript == Init /\ [][NextTranscript]_vars

\* what the user types into the custom system prompt
PromptTexts == { << >>, << " " >>, << " ", "Be", " ", "brief.", "\n" >> }

\* what the user types in the runs with the prompt settings
PromptInputs == { << >>, << "hi" >> }

\* the answer with the plain text
PlainResponses ==
    { r \in TextResponses :
        getActualAIResponse(inflight[1].initialState, r).text = << "ok" >> }

\* The program with the prompt settings and the modes: the prompt that is
\* sent to the provider.
NextPrompt ==
    \/ handleProviderSelect(Config("Gemini", "gemini-pro", "key", << >>))
    \/ \E mode \in Modes : onModeChange(mode)
    \/ onToggle
    \/ \E value \in PromptTexts : onChange(value)
    \/ handleFileSelect(<< TextFile >>)
    \/ FileRead(TRUE)
    \/ \E input \in PromptInputs : SubmitMessage(input)
    \/ \E resp \in PlainResponses : Respond(resp)

SpecPrompt == Init /\ [][NextPrompt]_vars

\* The program with both providers and attachments of every kind, up to the
\* first request that is sent to the provider.
RequestBatches ==
    { b \in Batches :
        /\ Len(b) = 1
        /\ b[1] \in { TextFile, ImageFile, PdfFile } }

\* what the user types: nothing, a blank, a word
RequestInputs == { << >>, << " " >>, << "hi" >> }

NextRequest ==
    \/ \E cfg \in Configs : handleProviderSelect(cfg)
    \/ \E files \in RequestBatches : handleFileSelect(files)
    \/ FileRead(TRUE)
    \/ \E k \in 1..Len(attachments) : removeAttachment(attachments[k].id)
    \/ \E mode \in Modes : onModeChange(mode)
    \/ \E input \in RequestInputs : SubmitMessage(input)
    \/ SubmitCommand(<< "/help" >>)

SpecRequest == Init /\ [][NextRequest]_vars

\* The program started over a log that the store kept from earlier
\* sessions (useLocalStorage reads it back on mount): the context window.
MaxStored == 7

\* message i of a stored log: its text names its place
StoredMessage(role, i) == Msg(role, << "m", ToString(i) >>, 0, << >>, << >>)

StoredLogs ==
    UNION { { [ i \in 1..n |-> StoredMessage(roles[i], i) ] :
                roles \in [ 1..n -> Roles ] } : n \in 0..MaxStored }

InitStored ==
    /\ isConfigured = FALSE
    /\ appState = NullState
    /\ chatMessages \in StoredLogs
    /\ currentMode = "none"
    /\ isTyping = FALSE
    /\ inflight = << >>
    /\ attachments = << >>
    /\ processingFiles = {}
    /\ batch = << >>
    /\ clipboard = << >>
    /\ download = << >>
    /\ clock = 0
    /\ fetchCount = 0
    /\ alerts = << >>
    /\ customSystemPrompt = << >>
    /\ systemPromptEnabled = FALSE
    /\ providerSelection = ProviderSelectionMount

NextContext ==
    \/ handleProviderSelect(Config("Gemini", "gemini-pro", "key", << >>))
    \/ SubmitCommand(<< "/help" >>)
    \/ SubmitMessage(<< "hi" >>)
    \/ \E resp \in PlainResponses : Respond(resp)

SpecContext == InitStored /\ [][NextContext]_vars

\* The program with a request in flight while the log is cleared or loaded.
NextInflight ==
    \/ handleProviderSelect(Config("Gemini", "gemini-pro", "key", << >>))
    \/ SubmitMessage(<< "hi" >>)
    \/ \E resp \in CommonResponses : Respond(resp)
    \/ handleClearChat
    \/ LoadConversation("notes.md", ForeignTranscript)

SpecInflight == Init /\ [][NextInflight]_vars

\* The program with batches of files of every kind and the submit of a
\* message or a command; a read that was started ends, well or badly
\* (FileReader calls onload or onerror, a promise settles).
NextBatch ==
    \/ handleProviderSelect(Config("Gemini", "gemini-pro", "key", << >>))
    \/ \E files \in Batches : handleFileSelect(files)
    \/ \E readable \in BOOLEAN : FileRead(readable)
    \/ \E input \in { << >>, << "hi" >> } : SubmitMessage(input)
    \/ SubmitCommand(<< "/help" >>)

SpecBatch ==
    /\ Init
    /\ [][NextBatch]_vars
    /\ WF_vars(\E readable \in BOOLEAN : FileRead(readable))

\* The wizard with every button and field of its five steps, and the
\* settings button that brings it back.
NextWizard ==
    \/ \E provider \in { "Gemini", "OpenAI" } :
           ProviderSelection_handleProviderSelect(provider)
    \/ \E i \in 1..Len(openAIProviders) :
           handleOpenAIProviderSelect(openAIProviders[i])
    \/ Continue
    \/ \E value \in { "", " ", "http://my.host/v1" } : setCustomBaseURL(value)
    \/ handleCustomURLSubmit
    \/ \E value \in { "", "key" } : setApiKey(value)
    \/ handleApiKeySubmit
    \/ \E models \in { << >>, << "gemini-pro" >> } : ModelsFetched(models)
    \/ \E value \in { "", " ", "llama2" } : setSelectedModel(value)
    \/ ModelButton
    \/ ModelEntry
    \/ goBack
    \/ handleChangeProvider

SpecWizard == Init /\ [][NextWizard]_vars

----------------------------------------------------------------------------
(* Properties. *)

\* the inputs whose command word is /code, and /webapp
CodeInputs == { i \in Inputs : i # << >> /\ Head(i) = "/code" }

WebappInputs == { i \in Inputs : i # << >> /\ Head(i) = "/webapp" }

\* C1: every /code command sets the mode to code-only, unless the mode is
\* code-only already, and then to normal; /webapp does the same for
\* webapp-only (so /code twice from normal ends in normal, and /webapp then
\* /code ends in code-only); and the mode is always exactly one of normal,
\* code-only, webapp-only.
C1_ModeToggle ==
    /\ [](currentMode \in Modes)
    /\ [][ /\ \A i \in CodeInputs :
                SubmitCommand(i) =>
                    currentMode' = IF currentMode = "code" THEN "none"
                                   ELSE "code"
           /\ \A i \in WebappInputs :
                SubmitCommand(i) =>
                    currentMode' = IF currentMode = "webapp" THEN "none"
                                   ELSE "webapp" ]_vars

\* the message k places before the end of the log
FromEnd(k) == chatMessages[Len(chatMessages) - k]

\* /webapp then /code has been entered, and the mode is code-only
C1_Witness ==
    /\ Len(chatMessages) >= 4
    /\ FromEnd(3).content = << "/webapp" >>
    /\ FromEnd(2).content = WebappModeText("webapp")
    /\ FromEnd(1).content = << "/code" >>
    /\ FromEnd(0).content = CodeModeText("code")
    /\ currentMode = "code"

\* success responses in which a level of the result field is missing
\* (a present but empty text is not among them)
Malformed(resp) ==
    /\ resp.fetched
    /\ Ok(resp)
    /\ resp.name \in { "noCandidates", "emptyCandidates", "noContent",
                       "noParts", "emptyParts", "noText",
                       "noChoices", "emptyChoices", "noMessage" }

\* C2: every success response that lacks the expected result field at some
\* level makes the request fail with an 'invalid response format' error, and
\* never yields a text: the conversation gains exactly one assistant message,
\* and that message carries this error.
C2_MalformedIsInvalidFormat ==
    [][ \A resp \in PossibleResponses :
            (Malformed(resp) /\ Respond(resp)) =>
                /\ Len(chatMessages') = Len(chatMessages) + 1
                /\ Last(chatMessages').role = "ai"
                /\ Last(chatMessages').content[1] = ErrorMark
                /\ Last(chatMessages').content[2] = InvalidFormat ]_vars

\* the log ends with the notice of a load of a transcript this program saved
LoadedSaved ==
    /\ Len(chatMessages) > 0
    /\ Len(download) = 1
    /\ Last(chatMessages).role = "system"
    /\ Last(chatMessages).content
         = LoadedText("chat-conversation.md", Len(chatMessages) - 1)

\* C3: saving a conversation of K messages and loading the transcript yields
\* K messages whose roles and text contents equal the originals, in order,
\* whether or not the messages carry attachments.
C3_RoundTrip ==
    LoadedSaved =>
        LET original == download[1].of
            loaded == SubSeq(chatMessages, 1, Len(chatMessages) - 1)
        IN /\ Len(loaded) = Len(original)
           /\ \A k \in 1..Len(loaded) :
                /\ loaded[k].role = original[k].role
                /\ loaded[k].content = original[k].content

\* the files that are neither images nor of a supported extension
UnsupportedFiles ==
    { f \in Files : f.type \notin ImageTypes /\ ~isSupportedDocument(f) }

\* C4: a selected file that is not an image and whose extension is outside
\* the supported list is rejected as an unsupported file type, so that no
\* attachment for such a file is ever in the pending list.
C4_UnsupportedRejected ==
    \A f \in UnsupportedFiles :
        \A k \in 1..Len(attachments) : attachments[k].name # f.name

\* the attachment was made from file number k of a batch, and holds the
\* whole of it: every page of a PDF, the whole text of any other file
FromFile(att, k, file) ==
    /\ att.id[2] = k
    /\ att.name = file.name
    /\ att.size = file.size
    /\ IF file.ext = "pdf"
       THEN att.hasPages /\ Len(att.documentPages) = Len(file.pages)
       ELSE /\ Len(att.content) >= Len(file.text)
            /\ SubSeq(att.content, Len(att.content) - Len(file.text) + 1,
                      Len(att.content)) = file.text

\* every page of the file can be rendered (any file that is not a PDF can)
Renders(file) ==
    file.ext = "pdf" =>
        \A p \in 1..Len(file.pages) : file.pages[p] # BrokenPage

\* the files of a batch from index i on that are not skipped for their size
RECURSIVE NextToRead(_, _)
NextToRead(files, i) ==
    IF i > Len(files) \/ files[i].size <= MaxFileSize THEN i
    ELSE NextToRead(files, i + 1)

\* C5: in every batch, a file over the 10 MB ceiling, and a file whose
\* reading or processing fails, contributes no attachment, whole or partial,
\* while every other image or supported document of the batch is added; the
\* batch goes on after a bad file, and ends by adding what it collected.
C5_BadFileSkipped ==
    /\ [](\A k \in 1..Len(attachments) :
             attachments[k].size <= MaxFileSize)
    /\ [][ \A files \in Batches :
              handleFileSelect(files) =>
                 LET n == NextToRead(files, 1)
                 IN /\ attachments' = attachments
                    /\ Len(alerts') = n - 1
                    /\ IF n > Len(files) THEN batch' = << >>
                       ELSE /\ Len(batch') = 1
                            /\ batch'[1].i = n
                            /\ batch'[1].newAttachments = << >> ]_vars
    /\ [][ \A readable \in BOOLEAN :
              FileRead(readable) =>
                 LET b == batch[1]
                     file == b.files[b.i]
                     n == NextToRead(b.files, b.i + 1)
                     after == IF n > Len(b.files)
                              THEN SubSeq(attachments', Len(attachments) + 1,
                                          Len(attachments'))
                              ELSE batch'[1].newAttachments
                 IN /\ SubSeq(attachments', 1, Len(attachments)) = attachments
                    /\ (n > Len(b.files)) = (batch' = << >>)
                    /\ n <= Len(b.files) =>
                          batch'[1].i = n /\ attachments' = attachments
                    /\ IF readable /\ Renders(file)
                       THEN (file.type \in ImageTypes
                             \/ isSupportedDocument(file)) =>
                               /\ Len(after) = Len(b.newAttachments) + 1
                               /\ SubSeq(after, 1, Len(b.newAttachments))
                                    = b.newAttachments
                               /\ FromFile(Last(after), b.i, file)
                       ELSE after = b.newAttachments ]_vars

\* the first file of a batch failed to be processed, nothing was collected
\* for it, and the batch has gone on to read its second file
C5_Witness ==
    /\ Len(batch) = 1
    /\ batch[1].i = 2
    /\ batch[1].files[1].size <= MaxFileSize
    /\ batch[1].newAttachments = << >>
    /\ Len(alerts) = 1
    /\ processingFiles = { AttachmentId(batch[1].time, 2) }

\* message k of the log is the echo of this command and k + 1 its reply
EchoAt(k, command) ==
    /\ k >= 1
    /\ k + 1 <= Len(chatMessages)
    /\ chatMessages[k].role = "user"
    /\ chatMessages[k].content = command
    /\ chatMessages[k + 1].role = "system"

\* C6: /loadcon is a recognized command: entering it never produces the
\* 'unknown command' notice.
C6_LoadconRecognized ==
    \A k \in 1..Len(chatMessages) :
        EchoAt(k, << "/loadcon" >>) =>
            chatMessages[k + 1].content[1] # UnknownMark

\* the last assistant message among the first n of the log (0 or 1 entries)
RECURSIVE LastAI(_)
LastAI(n) ==
    IF n = 0 THEN << >>
    ELSE IF chatMessages[n].role = "ai" THEN << chatMessages[n] >>
    ELSE LastAI(n - 1)

\* C7: /copy copies all code blocks of the last AI response of the log, also
\* when commands and their replies follow that response; it reports that no
\* code blocks were found only when that response has none.
C7_CopyLastAIResponse ==
    \A k \in 1..Len(chatMessages) :
        EchoAt(k, << "/copy" >>) =>
            LET ai == LastAI(k - 1)
            IN IF ai # << >> /\ Len(ai[1].codeBlocks) > 0
               THEN chatMessages[k + 1].content
                       = CopiedText(Len(ai[1].codeBlocks))
               ELSE chatMessages[k + 1].content = NoCodeText

\* C8: no input that begins with a slash causes a provider request: a
\* submitted command, recognized or not, issues no fetch and is answered by
\* a system message made locally; a fetch is only ever issued for a user
\* message that does not begin with a slash.
C8_NoFetchForSlash ==
    [][ /\ \A i \in Inputs :
              SubmitCommand(i) =>
                 /\ fetchCount' = fetchCount
                 /\ Len(chatMessages') >= 1
                 /\ Last(chatMessages').role = "system"
        /\ fetchCount' # fetchCount =>
              /\ Last(chatMessages').role = "user"
              /\ Head(Last(chatMessages').content) \notin SlashWords ]_vars

\* an unrecognized command was answered locally after one message was sent
C8_Witness ==
    /\ fetchCount = 1
    /\ EchoAt(Len(chatMessages) - 1, << "/foo" >>)
    /\ Last(chatMessages).content = UnknownText(<< "/foo" >>)

\* the inputs whose command word is /clear
ClearInputs == { i \in Inputs : i # << >> /\ Head(i) = "/clear" }

\* a step that applies a full clear, by the button or by the command
FullClear == handleClearChat \/ \E i \in ClearInputs : SubmitCommand(i)

\* C9: once a full clear by either path has been applied, no message from
\* before the clear is left in the log, the echo of the /clear command
\* included: the log is empty or holds exactly one system acknowledgement.
C9_ClearLeavesOnlyAck ==
    [][ FullClear =>
          /\ Len(chatMessages') <= 1
          /\ \A k \in 1..Len(chatMessages') :
                /\ chatMessages'[k].role = "system"
                /\ chatMessages'[k].content \in { ClearedText, ClearAckText }
                /\ \A j \in 1..Len(chatMessages) :
                      chatMessages'[k] # chatMessages[j] ]_vars

\* a log of a conversation has been replaced by the acknowledgement of /clear
C9_Witness ==
    /\ Len(chatMessages) = 1
    /\ chatMessages[1].content = ClearedText
    /\ chatMessages[1].timestamp >= 5
    /\ fetchCount >= 1

\* the answers that are failures: no connection, or a non-success status
Failed(resp) == ~resp.fetched \/ ~Ok(resp)

\* C10: a provider request is issued exactly once per sent message and never
\* again for it: when the request fails (no connection, or a non-success
\* status, which the error carries), exactly one assistant error message is
\* appended, the typing flag is false again, and the user can send again.
C10_NoRetry ==
    /\ [][ fetchCount' # fetchCount =>
              /\ fetchCount' = fetchCount + 1
              /\ Len(inflight) = 0
              /\ Len(chatMessages') = Len(chatMessages) + 1
              /\ Last(chatMessages').role = "user" ]_vars
    /\ [][ \A resp \in PossibleResponses :
              (Failed(resp) /\ Respond(resp)) =>
                 /\ fetchCount' = fetchCount
                 /\ inflight' = << >>
                 /\ Len(chatMessages') = Len(chatMessages) + 1
                 /\ SubSeq(chatMessages', 1, Len(chatMessages)) = chatMessages
                 /\ Last(chatMessages').role = "ai"
                 /\ Head(Last(chatMessages').content) = ErrorMark
                 /\ resp.fetched =>
                       ToString(resp.status) \in
                          { Last(chatMessages').content[j] :
                              j \in 1..Len(Last(chatMessages').content) }
                 /\ isTyping' = FALSE
                 /\ Cardinality(processingFiles') = 0 ]_vars

\* a request failed with status 500, the user sent again, and that request
\* failed too: one error message each, and nothing is being awaited
C10_Witness ==
    /\ fetchCount = 2
    /\ Len(chatMessages) >= 4
    /\ FromEnd(3).role = "user"
    /\ FromEnd(2).role = "ai"
    /\ "500" \in { FromEnd(2).content[j] : j \in 1..Len(FromEnd(2).content) }
    /\ FromEnd(1).role = "user"
    /\ FromEnd(0).role = "ai"
    /\ Head(FromEnd(0).content) = ErrorMark
    /\ ~isTyping
    /\ inflight = << >>

\* success responses of the expected shape whose text is empty
EmptyText(resp) == resp.fetched /\ Ok(resp) /\ resp.name = "emptyText"

\* C11: a success response of the expected shape with an empty text is
\* handed on unchanged: it is no error and no other text takes its place, so
\* the assistant message appended for it has empty content.
C11_EmptyTextPassedThrough ==
    [][ \A resp \in PossibleResponses :
            (EmptyText(resp) /\ Respond(resp)) =>
                /\ Len(chatMessages') = Len(chatMessages) + 1
                /\ Last(chatMessages').role = "ai"
                /\ Last(chatMessages').content = << >> ]_vars

\* the full text of a PDF: each page's text under its page number, in order
LabelledText(file) ==
    Concat([ p \in 1..Len(file.pages) |->
               << "Page", ToString(p), "\n" >> \o file.pages[p]
               \o << "\n", "\n" >> ])

\* C12: a PDF of N pages that is processed successfully yields exactly N
\* page records numbered 1..N in ascending order, each with the text of its
\* page, and a full text that is the pages' texts in page order, each under
\* its page number; when a page cannot be got, read or rendered (or the file
\* cannot be read) the whole call fails and no page record is produced.
C12_PdfPages ==
    [][ \A readable \in BOOLEAN :
           (FileRead(readable) /\ batch[1].files[batch[1].i].ext = "pdf") =>
              LET b == batch[1]
                  file == b.files[b.i]
                  after == IF batch' = << >>
                           THEN SubSeq(attachments', Len(attachments) + 1,
                                       Len(attachments'))
                           ELSE batch'[1].newAttachments
              IN IF readable /\ Renders(file)
                 THEN /\ Len(after) = Len(b.newAttachments) + 1
                      /\ LET pages == Last(after).documentPages
                         IN /\ Len(pages) = Len(file.pages)
                            /\ \A k \in 1..Len(pages) :
                                  /\ pages[k].pageNumber = k
                                  /\ pages[k].textContent = file.pages[k]
                      /\ Last(after).content = LabelledText(file)
                 ELSE /\ after = b.newAttachments
                      /\ Len(alerts') >= 1
                      /\ alerts'[1] = << "Error processing document",
                                         file.name, "Failed to process PDF" >>
     ]_vars

\* a PDF of two pages, the second file of its batch, is the one pending
\* attachment, with its two page records and its labelled text
C12_Witness ==
    /\ batch = << >>
    /\ Len(attachments) = 1
    /\ attachments[1].name = PdfFile.name
    /\ attachments[1].id[2] = 2
    /\ Len(attachments[1].documentPages) = 2
    /\ attachments[1].content = LabelledText(PdfFile)

\* where the visual entries of a request come from, in attachment order and
\* within a PDF in page order: page 0 stands for an image attachment
RECURSIVE VisualSources(_, _)
VisualSources(atts, k) ==
    IF k > Len(atts) THEN << >>
    ELSE (IF atts[k].type \in ImageTypes
          THEN << [ att |-> k, page |-> 0 ] >>
          ELSE IF atts[k].hasPages
          THEN [ p \in 1..Len(atts[k].documentPages) |->
                   [ att |-> k, page |-> p ] ]
          ELSE << >>)
         \o VisualSources(atts, k + 1)

\* the image data of a source
SourceData(atts, src) ==
    IF src.page = 0 THEN extractBase64FromDataURL(atts[src.att].content)
    ELSE atts[src.att].documentPages[src.page].imageBase64

\* s ends with t
EndsWith(s, t) ==
    /\ Len(s) >= Len(t)
    /\ SubSeq(s, Len(s) - Len(t) + 1, Len(s)) = t

\* the entries of a request are the text and then the data of these sources
CarriesInOrder(req, prompt, atts, sources) ==
    /\ Len(req.entries) = 1 + Len(sources)
    /\ req.entries[1] = TextEntry(prompt)
    /\ \A j \in 1..Len(sources) :
          /\ req.entries[j + 1].type \in { "inline_data", "image_url" }
          /\ EndsWith(req.entries[j + 1].data, SourceData(atts, sources[j]))

\* C13: for both providers, the request carries visual entries exactly when
\* some attachment is an image or carries a page; then its content is one
\* text entry with the instruction followed by one visual entry per image
\* and per PDF page, in attachment order and page order, the same number and
\* order for both providers; otherwise it is one text entry and nothing else.
C13_VisualEntries ==
    Len(inflight) = 1 =>
        LET atts == inflight[1].attachments
            req == inflight[1].request
            prompt == req.entries[1].data
            sources == VisualSources(atts, 1)
            visual == \E k \in 1..Len(atts) :
                         \/ atts[k].type \in ImageTypes
                         \/ Len(atts[k].documentPages) > 0
        IN /\ (Len(req.entries) > 1) <=> visual
           /\ CarriesInOrder(req, prompt, atts, sources)
           /\ \A provider \in Providers :
                 CarriesInOrder(Request(provider, prompt, atts), prompt,
                                atts, sources)

\* a request to provider B is in flight with an image and the two pages of a
\* PDF, in this order
C13_Witness ==
    /\ Len(inflight) = 1
    /\ inflight[1].initialState.provider = "OpenAI"
    /\ Len(inflight[1].attachments) = 2
    /\ inflight[1].attachments[1].type \in ImageTypes
    /\ Len(inflight[1].attachments[2].documentPages) = 2
    /\ Len(inflight[1].request.entries) = 4

\* C14: a submit whose input is empty after trimming sends nothing and
\* changes nothing when no attachment is pending, and with at least one
\* pending attachment sends the user message with the default directive
\* 'Please analyze the attached files.' as its content.
C14_DefaultDirective ==
    [][ \A input \in RequestInputs :
           Trim(input) = << >> =>
              /\ Len(attachments) = 0 =>
                    ~(SubmitMessage(input) \/ SubmitCommand(input))
              /\ (Len(attachments) > 0 /\ SubmitMessage(input)) =>
                    /\ Len(chatMessages') = Len(chatMessages) + 1
                    /\ Last(chatMessages').role = "user"
                    /\ Last(chatMessages').content = DefaultDirective ]_vars

\* the words that wrap the user text in the code-only and webapp-only modes
\* and under a custom system prompt
WrapperWords ==
    { CodeModeHeader, CodeModeFooter, WebappModeHeader, WebappModeFooter,
      "User request:", "<quote>" }

\* the prompt of the request that a step sends
SentPrompt == inflight'[1].request.entries[1].data

\* the custom system prompt is off: disabled, or blank
OverrideOff == ~systemPromptEnabled \/ Trim(customSystemPrompt) = << >>

\* C15: a message sent in normal mode with the custom system prompt
\* disabled or blank has as prompt the context prefix, then the attachment
\* text, then the raw user text with no wrapper; with no attachment and no
\* message other than system messages among the last six of the log, the
\* prompt is the raw user text exactly.
C15_NormalPrompt ==
    [][ \A input \in PromptInputs :
           (SubmitMessage(input) /\ currentMode = "none" /\ OverrideOff) =>
              LET text == Last(chatMessages').content
                  window == RecentMessages(chatMessages)
              IN /\ SentPrompt = getPreviousContext(chatMessages)
                                 \o AttachmentContext(attachments) \o text
                 /\ \A i \in 1..Len(SentPrompt) :
                       SentPrompt[i] \notin WrapperWords
                 /\ (/\ Len(attachments) = 0
                     /\ \A i \in 1..Len(window) : window[i].role = "system")
                    => SentPrompt = text ]_vars

\* a request in normal mode is in flight whose prompt begins with the
\* context of an earlier exchange, holds the text of an attachment and ends
\* with the raw user text
C15_Witness ==
    /\ Len(inflight) = 1
    /\ inflight[1].mode = "none"
    /\ Len(inflight[1].attachments) = 1
    /\ LET prompt == inflight[1].request.entries[1].data
       IN /\ Head(prompt) = "Previous conversation context:"
          /\ \E i \in 1..Len(prompt) : prompt[i] = "Attached files:"
          /\ EndsWith(prompt, << "hi" >>)
          /\ \A i \in 1..Len(prompt) : prompt[i] \notin WrapperWords

\* s begins with t
StartsWith(s, t) == Len(s) >= Len(t) /\ SubSeq(s, 1, Len(t)) = t

\* C16: the custom system prompt affects the normal mode only.  A message
\* sent in code-only or webapp-only mode has the prompt it would have under
\* any other custom prompt text and any other setting of its switch; a
\* message sent in normal mode has the custom prompt (less the white space
\* around it) before the context and the user text exactly when the switch
\* is on and the text is not blank.
C16_CustomPromptNormalOnly ==
    [][ \A input \in PromptInputs :
           SubmitMessage(input) =>
              LET text == Last(chatMessages').content
                  custom == Trim(customSystemPrompt)
                  rest == getPreviousContext(chatMessages)
                          \o AttachmentContext(attachments)
                  prepended ==
                      /\ custom # << >>
                      /\ StartsWith(SentPrompt, custom \o << "\n", "\n" >>)
                      /\ EndsWith(SentPrompt, rest \o UserRequest(text))
                      /\ Len(SentPrompt) =
                            Len(custom) + 2 + Len(rest) + Len(text) + 3
              IN IF currentMode = "none"
                 THEN (systemPromptEnabled /\ custom # << >>) <=> prepended
                 ELSE \A enabled \in BOOLEAN, value \in PromptTexts :
                         SentPrompt =
                            createModePrompt(text, currentMode, attachments,
                                             chatMessages, enabled, value)
            ]_vars

\* a request sent in code-only mode is in flight while a custom system
\* prompt is set and switched on, and no word of it is in the prompt
C16_Witness ==
    /\ Len(inflight) = 1
    /\ inflight[1].mode = "code"
    /\ currentMode = "code"
    /\ systemPromptEnabled
    /\ Trim(customSystemPrompt) # << >>
    /\ LET prompt == inflight[1].request.entries[1].data
       IN \A i \in 1..Len(prompt) : prompt[i] # "Be"

C18_ConfigurationImmutable ==
    [][ /\ (isConfigured /\ isConfigured') => appState' = appState
        /\ isConfigured' =>
              /\ appState'.provider \in Providers
              /\ appState'.model # "null"
        /\ \A cfg \in Configs : handleProviderSelect(cfg) => appState' = cfg
        /\ ~isConfigured' =>
              /\ appState' = NullState
              /\ currentMode' = "none"
              /\ inflight' = << >>
        /\ SubmitCommand(<< "/model" >>) => ~isConfigured' ]_vars

\* the chat is shown for provider B after it was first configured for
\* provider A (whose welcome is still the first message of the log)
C18_Witness ==
    /\ isConfigured
    /\ appState.provider = "OpenAI"
    /\ Len(chatMessages) > 1
    /\ chatMessages[1].content =
          WelcomeText(Config("Gemini", "gemini-pro", "key", << >>))
    /\ \E k \in 1..Len(chatMessages) : EchoAt(k, << "/model" >>)

\* the command words of the switch of handleCommand
KnownCommandWords ==
    { "/help", "/clear", "/model", "/copy", "/code", "/webapp", "/savecon" }

\* the input is a command that fails: an unknown command, or /copy when the
\* last message of the log holds no code block
CommandError(input) ==
    /\ StartsWithSlash(input)
    /\ \/ Head(input) \notin KnownCommandWords
       \/ /\ Head(input) = "/copy"
          /\ \/ Len(chatMessages) = 0
             \/ Len(Last(chatMessages).codeBlocks) = 0

C20_ConcurrentBatch ==
    Len(batch) = 1 =>
        \A i \in batch[1].i..Len(batch[1].files) :
            batch[1].files[i].size <= MaxFileSize =>
                AttachmentId(batch[1].time, i) \in processingFiles

\* the places of the log whose messages belong to the context of a send:
\* among the six most recent, and not written by the system
ContextPlaces(log) ==
    { i \in 1..Len(log) : i > Len(log) - 6 /\ log[i].role # "system" }

\* the lines of these messages, in the order of their places from place i on
RECURSIVE ContextLines(_, _)
ContextLines(log, i) ==
    IF i > Len(log) THEN << >>
    ELSE IF i \in ContextPlaces(log)
    THEN << << log[i].role, ":" >> \o log[i].content >>
         \o ContextLines(log, i + 1)
    ELSE ContextLines(log, i + 1)

\* C21: the context prefix of a prompt holds exactly the messages that are
\* not system messages among the six most recent entries of the log at send
\* time, in log order, and no system message or older entry; it is empty
\* when these six are all system messages, even if older user or assistant
\* messages exist.
C21_ContextWindow ==
    [][ SubmitMessage(<< "hi" >>) =>
           LET lines == ContextLines(chatMessages, 1)
           IN /\ Len(lines) <= 6
              /\ SentPrompt =
                    (IF lines = << >> THEN << >>
                     ELSE << "Previous conversation context:", "\n" >>
                          \o Join(lines, << "\n", "\n" >>)
                          \o << "\n", "\n" >>)
                    \o << "hi" >>
              /\ (\A i \in 1..Len(chatMessages) :
                     i > Len(chatMessages) - 6 =>
                        chatMessages[i].role = "system")
                 => SentPrompt = << "hi" >> ]_vars

\* a request is in flight whose prompt is the bare user text although the
\* log holds an older message of the user: the six entries before the sent
\* message are all system messages
C21_Witness ==
    /\ Len(inflight) = 1
    /\ inflight[1].request.entries[1].data = << "hi" >>
    /\ Len(chatMessages) >= 8
    /\ chatMessages[1].role = "user"
    /\ \A i \in (Len(chatMessages) - 6)..(Len(chatMessages) - 1) :
          chatMessages[i].role = "system"
    /\ Last(chatMessages).content = << "hi" >>

\* t occurs in s as a run of consecutive tokens, beginning at place p
OccursAt(s, t, p) ==
    /\ p >= 1
    /\ p + Len(t) - 1 <= Len(s)
    /\ SubSeq(s, p, p + Len(t) - 1) = t

Occurs(s, t) == \E p \in 1..Len(s) : OccursAt(s, t, p)

\* the prompt holds a header with the number and the name of attachment k,
\* closed by a line end, and right after it the text of the attachment
InlinedUnderHeader(prompt, k, att) ==
    \E p \in 1..Len(prompt) :
       /\ OccursAt(prompt, << "\n", ToString(k), att.name >>, p)
       /\ \E q \in (p + 3)..Len(prompt) :
             /\ prompt[q] = "\n"
             /\ \A j \in (p + 3)..(q - 1) : prompt[j] # "\n"
             /\ OccursAt(prompt, att.content \o << "\n" >>, q + 1)

\* C22: for every attachment list and every mode, the instruction string
\* holds under a header of its own the text of every attachment that is
\* neither an image nor a PDF and the extracted text of every PDF, and never
\* the encoded payload of an image or of the image of a PDF page; these are
\* carried by the visual entries of the request.
C22_TextInlinedImagesApart ==
    Len(inflight) = 1 =>
        LET atts == inflight[1].attachments
            entries == inflight[1].request.entries
            prompt == entries[1].data
        IN \A k \in 1..Len(atts) :
              IF atts[k].type \in ImageTypes
              THEN LET payload == extractBase64FromDataURL(atts[k].content)
                   IN /\ ~Occurs(prompt, payload)
                      /\ \E j \in 2..Len(entries) :
                            EndsWith(entries[j].data, payload)
              ELSE /\ InlinedUnderHeader(prompt, k, atts[k])
                   /\ \A p \in 1..Len(atts[k].documentPages) :
                         LET payload == atts[k].documentPages[p].imageBase64
                         IN /\ ~Occurs(prompt, payload)
                            /\ \E j \in 2..Len(entries) :
                                  EndsWith(entries[j].data, payload)

\* a request sent in code-only mode is in flight with a PDF and an image
\* attached
C22_Witness ==
    /\ Len(inflight) = 1
    /\ inflight[1].mode = "code"
    /\ Len(inflight[1].attachments) = 2
    /\ Len(inflight[1].attachments[1].documentPages) = 2
    /\ inflight[1].attachments[2].type \in ImageTypes
    /\ Occurs(inflight[1].request.entries[1].data,
              << "Page", "2", "\n", "two" >>)

\* the ids of a list of attachments
Ids(atts) == { atts[k].id : k \in 1..Len(atts) }

\* C23: the pending list is updated atomically.  The step that ends a batch
\* makes the pending list the list of that moment followed by attachments
\* of the batch, in the order of its files; a removal takes out the one
\* attachment and touches nothing else; no other step of attaching changes
\* the list: so a removal made while a batch is under way is never undone.
C23_AtomicPendingList ==
    [][ /\ \A readable \in BOOLEAN :
              FileRead(readable) =>
                 LET old == Len(attachments)
                     new == Len(attachments')
                 IN /\ new >= old
                    /\ SubSeq(attachments', 1, old) = attachments
                    /\ batch' # << >> => attachments' = attachments
                    /\ new - old <= Len(batch[1].files)
                    /\ \A k \in (old + 1)..new :
                          /\ attachments'[k].id[1] = batch[1].time
                          /\ attachments'[k].id \notin Ids(attachments)
                          /\ k < new =>
                                attachments'[k].id[2]
                                   < attachments'[k + 1].id[2]
        /\ \A id \in Ids(attachments) :
              removeAttachment(id) =>
                 /\ attachments' =
                       SelectSeq(attachments, LAMBDA att : att.id # id)
                 /\ Len(attachments') = Len(attachments) - 1
                 /\ UNCHANGED << batch, processingFiles >>
        /\ \A files \in Batches :
              handleFileSelect(files) => attachments' = attachments ]_vars

\* a batch selected while an attachment was pending is still under way, and
\* the user has removed that attachment in the meantime
C23_Witness ==
    /\ Len(batch) = 1
    /\ batch[1].time = 2
    /\ processingFiles # {}
    /\ attachments = << >>

\* C24: in every reachable state the messages of the log are in the order
\* of their creation: of any two messages the one earlier in the log has a
\* timestamp that is not later than the other's, also when the answer of
\* the provider arrives after system messages were appended during the
\* request and after a transcript was loaded.
C24_OrderedByTime ==
    \A i, j \in 1..Len(chatMessages) :
        i < j => chatMessages[i].timestamp <= chatMessages[j].timestamp

\* the answer of the provider is the last message of a log that was loaded
\* from a transcript, and a system message appended during the request
\* stands between the answer and the message it answers
C24_Witness ==
    /\ Len(chatMessages) >= 4
    /\ Last(chatMessages).role = "ai"
    /\ chatMessages[Len(chatMessages) - 1].role = "system"
    /\ chatMessages[Len(chatMessages) - 2].role = "user"
    /\ \E k \in 1..(Len(chatMessages) - 3) :
          /\ chatMessages[k].role = "system"
          /\ chatMessages[k].content[1] = LoadedText("notes.md", 1)[1]

\* C25: an attachment leaves the pending list only when the user removes it
\* or when it is frozen into the user message that is sent.  Every accepted
\* submit, of a message or of a command, creates a user message whose
\* attachments are the attachments pending at that moment, in their order;
\* and only messages of the user carry attachments.
C25_PendingFrozenIntoMessage ==
    /\ [](\A k \in 1..Len(chatMessages) :
             chatMessages[k].attachments # << >> =>
                chatMessages[k].role = "user")
    /\ [][ (\E input \in RequestInputs \cup { << "/help" >> } :
               SubmitMessage(input) \/ SubmitCommand(input)) =>
              \E k \in (Len(chatMessages) + 1)..Len(chatMessages') :
                 /\ chatMessages'[k].role = "user"
                 /\ chatMessages'[k].attachments = attachments ]_vars

\* C26: a request in flight is never cancelled.  Clearing the log and
\* loading a transcript while a request is in flight leave the request
\* running, and its answer or its failure is then appended as the assistant
\* message at the end of the log as it is by then.
C26_NoCancellation ==
    [][ /\ (/\ Len(inflight) = 1
            /\ \/ handleClearChat
               \/ LoadConversation("notes.md", ForeignTranscript)) =>
              /\ inflight' = inflight
              /\ isTyping' = isTyping
              /\ isTyping
        /\ \A resp \in CommonResponses :
              Respond(resp) =>
                 /\ Len(chatMessages') = Len(chatMessages) + 1
                 /\ SubSeq(chatMessages', 1, Len(chatMessages))
                       = chatMessages
                 /\ Last(chatMessages').role = "ai"
                 /\ inflight' = << >> ]_vars

\* the log holds the acknowledgement of a clear and after it an answer of
\* the provider, and not the message of the user that it answers
C26_Witness ==
    /\ Len(chatMessages) = 2
    /\ chatMessages[1].role = "system"
    /\ chatMessages[1].content = ClearAckText
    /\ chatMessages[2].role = "ai"
    /\ inflight = << >>

\* C27: at most one request is in flight at any time.  The typing flag is
\* true exactly from the send of a message until its answer or its failure
\* has been appended: it is raised by a send and by nothing else, while it is
\* up no message and no command is accepted from the input area, and it
\* falls only in the step that appends the assistant message of the send.
C27_SingleFlight ==
    /\ [](Len(inflight) <= 1 /\ (isTyping <=> Len(inflight) = 1))
    /\ [][ /\ (~isTyping /\ isTyping') =>
                 /\ fetchCount' = fetchCount + 1
                 /\ Last(chatMessages').role = "user"
           /\ isTyping =>
                 \A input \in Inputs :
                    ~SubmitMessage(input) /\ ~SubmitCommand(input)
           /\ (isTyping /\ ~isTyping') =>
                 /\ Len(chatMessages') = Len(chatMessages) + 1
                 /\ Last(chatMessages').role = "ai" ]_vars

\* C28: while a file of a batch is in processing no message and no command
\* is submitted; when a batch ends, whatever oversized, failing and good
\* files it held, no file is left in processing; so a batch under way leads
\* to a state where sending is open again, and a message that is sent holds
\* every attachment of the batches before it.
C28_BatchBlocksSubmit ==
    /\ [](/\ batch = << >> => processingFiles = {}
          /\ batch # << >> =>
                processingFiles
                   = { AttachmentId(batch[1].time, batch[1].i) })
    /\ [][ /\ (\E input \in { << >>, << "hi" >>, << "/help" >> } :
                  SubmitMessage(input) \/ SubmitCommand(input)) =>
                 /\ processingFiles = {}
                 /\ batch = << >>
           /\ \A input \in { << >>, << "hi" >> } :
                 SubmitMessage(input) =>
                    /\ Last(chatMessages').attachments = attachments
                    /\ inflight'[1].attachments = attachments ]_vars
    /\ (batch # << >>) ~> (batch = << >> /\ processingFiles = {})

\* a message was sent with the attachment of a batch in which another file
\* failed, and no file is in processing
C28_Witness ==
    /\ Len(inflight) = 1
    /\ Len(inflight[1].attachments) = 1
    /\ Len(alerts) = 1
    /\ processingFiles = {}
    /\ batch = << >>

\* how many times t occurs in s
Occurrences(s, t) == Cardinality({ p \in 1..Len(s) : OccursAt(s, t, p) })

\* C29: the context prefix of a send is built over the log as it was before
\* the message being sent was appended: the prompt holds the text of the
\* user once for the message itself, and besides only as often as earlier
\* messages of the context window hold it.
C29_OwnMessageNotInContext ==
    [][ SubmitMessage(<< "hi" >>) =>
           LET earlier == { k \in ContextPlaces(chatMessages) :
                              chatMessages[k].content = << "hi" >> }
           IN /\ Last(chatMessages').content = << "hi" >>
              /\ Occurrences(SentPrompt, << "hi" >>)
                    = 1 + Cardinality(earlier)
              /\ Occurrences(SentPrompt, << "user", ":" >>)
                    = Cardinality({ k \in ContextPlaces(chatMessages) :
                                      chatMessages[k].role = "user" })
       ]_vars

\* a request is in flight whose prompt begins with the context of earlier
\* messages and holds the text of the user once
C29_Witness ==
    /\ Len(inflight) = 1
    /\ LET prompt == inflight[1].request.entries[1].data
       IN /\ Head(prompt) = "Previous conversation context:"
          /\ Occurrences(prompt, << "hi" >>) = 1
          /\ Occurrences(prompt, << "user", ":" >>) >= 1
    /\ Last(chatMessages).content = << "hi" >>

\* the configuration handed over agrees with the wizard state it came from
HandedOverConsistent(w, cfg) ==
    /\ w.step = "model"
    /\ ~IsBlankString(cfg.model)
    /\ cfg.provider = "Gemini" =>
          /\ cfg.baseURL = << >>
          /\ ~IsBlankString(cfg.apiKey)
          /\ cfg.apiKey = w.apiKey
          /\ cfg.model \in { w.availableModels[i] :
                                 i \in 1..Len(w.availableModels) }
    /\ cfg.provider = "OpenAI" =>
          /\ w.selectedOpenAIProvider # << >>
          /\ cfg.baseURL =
                << IF w.selectedOpenAIProvider[1].isCustom
                   THEN w.customBaseURL
                   ELSE w.selectedOpenAIProvider[1].baseURL >>
          /\ ~IsBlankString(cfg.baseURL[1])
          /\ ~IsBlankString(cfg.apiKey)
          /\ w.selectedOpenAIProvider[1].name = "Ollama" =>
                cfg.apiKey = "ollama-local"

\* C30: along every path through the wizard, back button, Continue button
\* and re-selection included, the configuration handed over on completion
\* is consistent: it comes from the model step with a non-blank model; for
\* Gemini the base URL is undefined and the key is the non-blank key that
\* passed model fetching (a fetched key is kept as long as its models are
\* listed); for an OpenAI-compatible provider the base URL is the selected
\* provider's (the submitted URL for a custom provider) and the key is
\* non-blank, the placeholder 'ollama-local' for Ollama.
C30_ConsistentConfiguration ==
    [][ /\ (~isConfigured /\ isConfigured') =>
             /\ appState'.provider \in { "Gemini", "OpenAI" }
             /\ HandedOverConsistent(providerSelection, appState')
        /\ (providerSelection.isLoading /\ ~providerSelection'.isLoading
            /\ providerSelection'.step = "model") =>
             providerSelection'.apiKey = providerSelection.apiKey
        /\ (providerSelection.step = "model"
            /\ providerSelection'.step = "model") =>
             providerSelection'.apiKey = providerSelection.apiKey ]_vars

====
